---------------------------- MODULE Spec2Model ----------------------------
(***************************************************************************)
(* A model of src/ir/dtype.rs of the KECC compiler: the Dtype algebra, the *)
(* BaseDtype accumulator, declarator resolution, typedef resolution and    *)
(* the constness / size / alignment queries.                               *)
(*                                                                         *)
(* Every function of the source is a pure function of its arguments, so    *)
(* each is an operator computed the way the code computes it, and each     *)
(* specification below draws the function's inputs in Init and applies the *)
(* function in one action.  A Rust Result is a record with a kind: "Ok"    *)
(* carries val, "Err" carries the DtypeError message and "Panic" stands    *)
(* for panic!, todo!, assert! and expect failures (an abort, which is not  *)
(* a DtypeError and returns nothing).                                      *)
(***************************************************************************)
EXTENDS Integers, Sequences, FiniteSets, TLC

VARIABLES
    pc,          \* "init" before the call, "done" after it
    op,          \* the function that was called
    self,        \* the Dtype receiver of the call
    typedefs,    \* the name -> Dtype environment of resolve_typedefs
    specifiers,  \* the declaration specifiers of the declaration
    declarator,  \* the declarator of the declaration (an Option)
    result       \* what the call returned

vars == <<pc, op, self, typedefs, specifiers, declarator, result>>

---------------------------------------------------------------------------
(* Result<T, DtypeError>, and an abort.                                    *)

Ok(v) == [kind |-> "Ok", val |-> v]

Err(m) == [kind |-> "Err", msg |-> m]

Panic(m) == [kind |-> "Panic", msg |-> m]

IsOk(r) == r.kind = "Ok"

(* The ? operator: the value of an Ok goes on, anything else is returned.  *)
Try(r, F(_)) == IF r.kind = "Ok" THEN F(r.val) ELSE r

(* Option<T>: None is the empty sequence, Some(x) the sequence <<x>>.      *)
None == <<>>

Some(x) == <<x>>

IsSome(o) == Len(o) = 1

Named(name, inner) == [name |-> name, inner |-> inner]

---------------------------------------------------------------------------
(* Program constants.                                                      *)

BITS_OF_BYTE == 8

SIZE_OF_POINTER == 4

SIZE_OF_CHAR == 1

SIZE_OF_SHORT == 2

SIZE_OF_INT == 4

SIZE_OF_LONG == 8

SIZE_OF_LONGLONG == 8

SIZE_OF_FLOAT == 4

SIZE_OF_DOUBLE == 8

---------------------------------------------------------------------------
(* The Dtype variants and their constructors.                              *)

DtypeUnit(c) == [tag |-> "Unit", is_const |-> c]

DtypeInt(w, s, c) == [tag |-> "Int", width |-> w, is_signed |-> s, is_const |-> c]

DtypeFloat(w, c) == [tag |-> "Float", width |-> w, is_const |-> c]

DtypePointer(inner, c) == [tag |-> "Pointer", inner |-> inner, is_const |-> c]

DtypeArray(inner, size) == [tag |-> "Array", inner |-> inner, size |-> size]

DtypeStruct(name, fields, c) ==
    [tag |-> "Struct", name |-> name, fields |-> fields, is_const |-> c]

DtypeFunction(ret, params) == [tag |-> "Function", ret |-> ret, params |-> params]

DtypeTypedef(name, c) == [tag |-> "Typedef", name |-> name, is_const |-> c]

unit == DtypeUnit(FALSE)

int(width) == DtypeInt(width, TRUE, FALSE)

float(width) == DtypeFloat(width, FALSE)

pointer(inner) == DtypePointer(inner, FALSE)

structure(name, fields) == DtypeStruct(name, fields, FALSE)

function(ret, params) == DtypeFunction(ret, params)

typedef(name) == DtypeTypedef(name, FALSE)

BOOL == DtypeInt(1, FALSE, FALSE)

CHAR == int(SIZE_OF_CHAR * BITS_OF_BYTE)

SHORT == int(SIZE_OF_SHORT * BITS_OF_BYTE)

INT == int(SIZE_OF_INT * BITS_OF_BYTE)

LONG == int(SIZE_OF_LONG * BITS_OF_BYTE)

LONGLONG == int(SIZE_OF_LONGLONG * BITS_OF_BYTE)

FLOAT == float(SIZE_OF_FLOAT * BITS_OF_BYTE)

DOUBLE == float(SIZE_OF_DOUBLE * BITS_OF_BYTE)

DefaultDtype == INT

get_int_width(d) == IF d.tag = "Int" THEN Some(d.width) ELSE None

get_array_inner(d) == IF d.tag = "Array" THEN Some(d.inner) ELSE None

(* Dtype::array: a new dimension is inserted beneath the dimensions the    *)
(* base already has; a function base panics.                               *)
(* An array constructor that wraps the new dimension around the base.     *)
ArrayWrapsOutermost(base_dtype, size) ==
    IF base_dtype.tag = "Function"
    THEN Panic("array size cannot be applied to function type")
    ELSE Ok(DtypeArray(base_dtype, size))

RECURSIVE array(_, _)
array(base_dtype, size) ==
    CASE base_dtype.tag = "Array" ->
           Try(array(base_dtype.inner, size),
               LAMBDA inner : Ok(DtypeArray(inner, base_dtype.size)))
      [] base_dtype.tag = "Function" ->
           Panic("array size cannot be applied to function type")
      [] OTHER -> Ok(DtypeArray(base_dtype, size))

(* A set_const that leaves the flag as it was.                            *)
SetConstIgnored(d, is_const) == d

set_const(d, is_const) ==
    CASE d.tag = "Unit" -> DtypeUnit(is_const)
      [] d.tag = "Int" -> DtypeInt(d.width, d.is_signed, is_const)
      [] d.tag = "Float" -> DtypeFloat(d.width, is_const)
      [] d.tag = "Pointer" -> DtypePointer(d.inner, is_const)
      [] d.tag = "Array" -> d
      [] d.tag = "Struct" -> DtypeStruct(d.name, d.fields, is_const)
      [] d.tag = "Function" -> d
      [] d.tag = "Typedef" -> DtypeTypedef(d.name, is_const)

set_signed(d, is_signed) ==
    IF d.tag = "Int"
    THEN Ok(DtypeInt(d.width, is_signed, d.is_const))
    ELSE Panic("signed and unsigned only be applied to Dtype::Int")

(* A constness that judges an array field like any other field.           *)
RECURSIVE is_const(_)
RECURSIVE AnyFieldConstPlain(_, _)
AnyFieldConstPlain(fields, i) ==
    IF i > Len(fields)
    THEN Ok(FALSE)
    ELSE LET c == is_const(fields[i].inner)
         IN  IF ~IsOk(c) THEN c
             ELSE IF c.val THEN Ok(TRUE)
             ELSE AnyFieldConstPlain(fields, i + 1)

(* Dtype::is_const.  The or and Iterator::any stop at the first true, so a *)
(* Typedef field behind a const field is never asked; a Typedef that is    *)
(* asked panics.                                                           *)
RECURSIVE AnyFieldConst(_, _)
AnyFieldConst(fields, i) ==
    IF i > Len(fields)
    THEN Ok(FALSE)
    ELSE LET f == fields[i].inner
             c == IF f.tag = "Array" THEN is_const(f.inner) ELSE is_const(f)
         IN  IF ~IsOk(c) THEN c
             ELSE IF c.val THEN Ok(TRUE)
             ELSE AnyFieldConst(fields, i + 1)

is_const(d) ==
    CASE d.tag \in {"Unit", "Int", "Float", "Pointer"} -> Ok(d.is_const)
      [] d.tag = "Array" -> Ok(TRUE)
      [] d.tag = "Struct" ->
           IF d.is_const THEN Ok(TRUE) ELSE AnyFieldConst(d.fields, 1)
      [] d.tag = "Function" -> Ok(TRUE)
      [] d.tag = "Typedef" -> Panic("typedef should be replaced by real dtype")

Max(a, b) == IF a >= b THEN a ELSE b

(* The Array arm of size_align_of.                                         *)
RECURSIVE size_align_of(_)

(* An array size that multiplies by the element size without padding the   *)
(* element up to its alignment.                                            *)
SizeAlignOfArrayUnpadded(d) ==
    LET r == size_align_of(d.inner)
    IN  IF ~IsOk(r) THEN r
        ELSE Ok(<<d.size * r.val[1], r.val[2]>>)

SizeAlignOfArray(d) ==
    LET r == size_align_of(d.inner)
    IN  IF ~IsOk(r) THEN r
        ELSE Ok(<<d.size * Max(r.val[1], r.val[2]), r.val[2]>>)

(* Dtype::size_align_of: Ok(<<size, align>>).                              *)
size_align_of(d) ==
    CASE d.tag = "Unit" -> Ok(<<0, 1>>)
      [] d.tag \in {"Int", "Float"} ->
           LET size_of == (d.width + BITS_OF_BYTE - 1) \div BITS_OF_BYTE
           IN  Ok(<<size_of, size_of>>)
      [] d.tag = "Pointer" -> Ok(<<SIZE_OF_POINTER, SIZE_OF_POINTER>>)
      [] d.tag = "Array" -> SizeAlignOfArray(d)
      [] d.tag = "Struct" -> Panic("not yet implemented")
      [] d.tag = "Function" -> Ok(<<0, 1>>)
      [] d.tag = "Typedef" -> Panic("typedef should be replaced by real dtype")

(* Dtype::resolve_typedefs.  collect::<Result<Vec<_>, _>>() resolves the   *)
(* fields (the parameters) in order and stops at the first that fails.     *)
RECURSIVE resolve_typedefs(_, _)
RECURSIVE ResolveAll(_, _, _, _)
ResolveAll(ds, tds, i, acc) ==
    IF i > Len(ds)
    THEN Ok(acc)
    ELSE LET r == resolve_typedefs(ds[i], tds)
         IN  IF ~IsOk(r) THEN r
             ELSE ResolveAll(ds, tds, i + 1, Append(acc, r.val))

(* A resolver that rebuilds the pointer and forgets its own flag.          *)
ResolvePointerDropsConst(d, tds) ==
    LET inner == resolve_typedefs(d.inner, tds)
    IN  IF ~IsOk(inner) THEN inner
        ELSE Ok(pointer(inner.val))

(* The Pointer arm: the pointee is resolved, the pointer keeps its flag.   *)
ResolvePointer(d, tds) ==
    LET inner == resolve_typedefs(d.inner, tds)
    IN  IF ~IsOk(inner) THEN inner
        ELSE Ok(set_const(pointer(inner.val), d.is_const))

(* The Array arm.                                                          *)
ResolveArray(d, tds) ==
    LET inner == resolve_typedefs(d.inner, tds)
    IN  IF ~IsOk(inner) THEN inner
        ELSE Ok(DtypeArray(inner.val, d.size))

(* A resolver that rebuilds the struct and forgets its own flag.           *)
ResolveStructDropsConst(d, tds) ==
    Try(ResolveAll([i \in 1..Len(d.fields) |-> d.fields[i].inner], tds, 1, <<>>),
        LAMBDA resolved_dtypes :
          Ok(structure(d.name,
                       [i \in 1..Len(d.fields) |->
                           Named(d.fields[i].name, resolved_dtypes[i])])))

(* The Struct arm: the fields keep their names and their order.            *)
ResolveStruct(d, tds) ==
    LET resolved_dtypes ==
            ResolveAll([i \in 1..Len(d.fields) |-> d.fields[i].inner],
                       tds, 1, <<>>)
    IN  IF ~IsOk(resolved_dtypes) THEN resolved_dtypes
        ELSE LET fields ==
                     [i \in 1..Len(d.fields) |->
                         Named(d.fields[i].name, resolved_dtypes.val[i])]
             IN  Ok(set_const(structure(d.name, fields), d.is_const))

(* The Function arm: the return type first, then the parameters.           *)
ResolveFunction(d, tds) ==
    LET ret == resolve_typedefs(d.ret, tds)
    IN  IF ~IsOk(ret) THEN ret
        ELSE LET params == ResolveAll(d.params, tds, 1, <<>>)
             IN  IF ~IsOk(params) THEN params
                 ELSE Ok(function(ret.val, params.val))

(* A resolver that gives the entry the wrapper's flag alone.               *)
ResolveTypedefWrapperConstOnly(d, tds) ==
    IF d.name \notin DOMAIN tds
    THEN [kind |-> "Err", msg |-> "unknown type name", name |-> d.name]
    ELSE LET dtype == tds[d.name]
             c == is_const(dtype)
         IN  IF ~IsOk(c) THEN c
             ELSE Ok(set_const(dtype, d.is_const))

(* The Typedef arm: the entry of the environment is cloned and returned    *)
(* with its constness or-ed with the wrapper's; the entry itself is not    *)
(* resolved, and is_const is asked of it as it is stored.                  *)
ResolveTypedef(d, tds) ==
    IF d.name \notin DOMAIN tds
    THEN [kind |-> "Err", msg |-> "unknown type name", name |-> d.name]
    ELSE LET dtype == tds[d.name]
             c == is_const(dtype)
         IN  IF ~IsOk(c) THEN c
             ELSE Ok(set_const(dtype, c.val \/ d.is_const))

resolve_typedefs(d, tds) ==
    CASE d.tag \in {"Unit", "Int", "Float"} -> Ok(d)
      [] d.tag = "Pointer" -> ResolvePointer(d, tds)
      [] d.tag = "Array" -> ResolveArray(d, tds)
      [] d.tag = "Struct" -> ResolveStruct(d, tds)
      [] d.tag = "Function" -> ResolveFunction(d, tds)
      [] d.tag = "Typedef" -> ResolveTypedef(d, tds)

---------------------------------------------------------------------------
(* The syntax tree of lang_c, as far as dtype.rs reads it.                 *)

(* ast::TypeSpecifier: Void, Bool, Char, Int, Float, Double, Short, Long,  *)
(* Signed, Unsigned, and kinds the code does not support (Complex).        *)
TS(k) == [ts |-> k]

TSTypedefName(name) == [ts |-> "TypedefName", name |-> name]

TSStruct(struct_type) == [ts |-> "Struct", struct_type |-> struct_type]

(* ast::TypeQualifier: Const, and kinds the code does not support.         *)
TQ(k) == [tq |-> k]

(* ast::StorageClassSpecifier: Typedef, and kinds the code does not        *)
(* support.                                                                *)
SC(k) == [sc |-> k]

(* ast::DeclarationSpecifier and ast::SpecifierQualifier.                  *)
DSStorageClass(n) == [ds |-> "StorageClass", node |-> n]

DSTypeSpecifier(n) == [ds |-> "TypeSpecifier", node |-> n]

DSTypeQualifier(n) == [ds |-> "TypeQualifier", node |-> n]

DSFunction == [ds |-> "Function"]

SQTypeSpecifier(n) == [sq |-> "TypeSpecifier", node |-> n]

SQTypeQualifier(n) == [sq |-> "TypeQualifier", node |-> n]

(* ast::PointerQualifier.                                                  *)
PQTypeQualifier(n) == [pq |-> "TypeQualifier", node |-> n]

PQExtension == [pq |-> "Extension"]

(* ast::ArraySize.  The expression of a VariableExpression carries what    *)
(* Constant::try_from and Constant::get_int make of it: no constant, a     *)
(* constant that is no integer, or an integer with its signedness.         *)
ExprInt(value, is_signed) ==
    [constant |-> "Int", value |-> value, is_signed |-> is_signed]

ExprFloat == [constant |-> "Float"]

ExprNotConstant == [constant |-> "None"]

VariableExpression(expr) == [form |-> "VariableExpression", expr |-> expr]

ArraySizeUnknown == [form |-> "Unknown"]

(* ast::DerivedDeclarator.                                                 *)
DDPointer(qualifiers) == [dd |-> "Pointer", qualifiers |-> qualifiers]

DDArray(qualifiers, size) ==
    [dd |-> "Array", qualifiers |-> qualifiers, size |-> size]

DDFunction(parameters) == [dd |-> "Function", parameters |-> parameters]

DDKRFunction(identifiers) == [dd |-> "KRFunction", identifiers |-> identifiers]

(* ast::DeclaratorKind and ast::Declarator.                                *)
KindAbstract == [k |-> "Abstract"]

KindIdentifier(name) == [k |-> "Identifier", name |-> name]

KindDeclarator(d) == [k |-> "Declarator", declarator |-> d]

Declarator(kind, derived) == [kind |-> kind, derived |-> derived]

ParameterDeclaration(specs, decl) == [specifiers |-> specs, declarator |-> decl]

TypeName(specs, decl) == [specifiers |-> specs, declarator |-> decl]

(* ast::StructType, ast::StructDeclaration, ast::StructDeclarator.         *)
StructType(kind, identifier, declarations) ==
    [kind |-> kind, identifier |-> identifier, declarations |-> declarations]

StructField(specs, declarators) ==
    [sd |-> "Field", specifiers |-> specs, declarators |-> declarators]

StaticAssert == [sd |-> "StaticAssert"]

StructDeclarator(decl) == [declarator |-> decl]

---------------------------------------------------------------------------
(* The BaseDtype accumulator.  An apply returns Ok with the accumulator    *)
(* after the call, or the error (the panic), before which nothing was      *)
(* written.                                                                *)

BaseDtypeDefault ==
    [scalar |-> None, size_modifiers |-> <<>>, signed_option |-> None,
     typedef_name |-> None, struct_type |-> None, is_const |-> FALSE,
     is_typedef |-> FALSE]

apply_storage_class(spec, storage_class) ==
    IF storage_class.sc = "Typedef"
    THEN Ok([spec EXCEPT !.is_typedef = TRUE])
    ELSE Panic("unsupported storage class")

(* A signedness arm that lets a later keyword replace an earlier one.     *)
SetSignedOptionAgain(spec, type_specifier) ==
    Ok([spec EXCEPT !.signed_option = Some(type_specifier)])

(* The arm of apply_type_specifier for Unsigned and Signed.                *)
SetSignedOption(spec, type_specifier) ==
    IF IsSome(spec.signed_option)
    THEN Err("duplicate signed option")
    ELSE Ok([spec EXCEPT !.signed_option = Some(type_specifier)])

apply_type_specifier(spec, type_specifier) ==
    CASE type_specifier.ts \in {"Unsigned", "Signed"} ->
           SetSignedOption(spec, type_specifier)
      [] type_specifier.ts \in {"Void", "Bool", "Char", "Int", "Float", "Double"} ->
           IF IsSome(spec.scalar)
           THEN Err("two or more scalar types in declaration specifiers")
           ELSE Ok([spec EXCEPT !.scalar = Some(type_specifier)])
      [] type_specifier.ts \in {"Short", "Long"} ->
           Ok([spec EXCEPT !.size_modifiers = Append(@, type_specifier)])
      [] type_specifier.ts = "TypedefName" ->
           IF IsSome(spec.typedef_name)
           THEN Err("two or more typedef names in declaration specifiers")
           ELSE Ok([spec EXCEPT !.typedef_name = Some(type_specifier.name)])
      [] type_specifier.ts = "Struct" ->
           IF IsSome(spec.struct_type)
           THEN Err("two or more struct type in declaration specifiers")
           ELSE Ok([spec EXCEPT !.struct_type = Some(type_specifier.struct_type)])
      [] OTHER -> Panic("not yet implemented: apply_type_specifier")

(* A const that is kept only when a base has been given before it.         *)
ApplyTypeQualifierAfterBase(spec, type_qualifier) ==
    IF type_qualifier.tq = "Const"
    THEN Ok([spec EXCEPT !.is_const =
                 \/ spec.is_const
                 \/ IsSome(spec.scalar)
                 \/ IsSome(spec.typedef_name)
                 \/ IsSome(spec.struct_type)])
    ELSE Panic("type qualifier is unsupported except const")

apply_type_qualifier(spec, type_qualifier) ==
    IF type_qualifier.tq = "Const"
    THEN Ok([spec EXCEPT !.is_const = TRUE])
    ELSE Panic("type qualifier is unsupported except const")

apply_specifier_qualifier(spec, typename_specifier) ==
    CASE typename_specifier.sq = "TypeSpecifier" ->
           apply_type_specifier(spec, typename_specifier.node)
      [] typename_specifier.sq = "TypeQualifier" ->
           apply_type_qualifier(spec, typename_specifier.node)

apply_declaration_specifier(spec, declaration_specifier) ==
    CASE declaration_specifier.ds = "StorageClass" ->
           apply_storage_class(spec, declaration_specifier.node)
      [] declaration_specifier.ds = "TypeSpecifier" ->
           apply_type_specifier(spec, declaration_specifier.node)
      [] declaration_specifier.ds = "TypeQualifier" ->
           apply_type_qualifier(spec, declaration_specifier.node)
      [] OTHER -> Panic("is_unsupported")

apply_pointer_qualifier(spec, pointer_qualifier) ==
    CASE pointer_qualifier.pq = "TypeQualifier" ->
           apply_type_qualifier(spec, pointer_qualifier.node)
      [] pointer_qualifier.pq = "Extension" ->
           Panic("ast::PointerQualifier::Extension is unsupported")

(* An accumulator that is emptied by an apply that fails.                  *)
AfterApplyEmptied(spec, outcome) ==
    IF IsOk(outcome) THEN outcome.val ELSE BaseDtypeDefault

(* The accumulator after one apply on it (the applies take it by mutable   *)
(* reference): every arm returns its error before it assigns a slot.       *)
AfterApply(spec, outcome) ==
    IF IsOk(outcome) THEN outcome.val ELSE spec

(* The batch applies: in order, stopping at the first that fails.          *)
RECURSIVE apply_specifier_qualifiers(_, _)
apply_specifier_qualifiers(spec, typename_specifiers) ==
    IF typename_specifiers = <<>>
    THEN Ok(spec)
    ELSE Try(apply_specifier_qualifier(spec, Head(typename_specifiers)),
             LAMBDA next : apply_specifier_qualifiers(next, Tail(typename_specifiers)))

(* A batch that goes on after a failure and reports the last one.         *)
RECURSIVE ApplyDeclarationSpecifiersToTheEnd(_, _)
ApplyDeclarationSpecifiersToTheEnd(spec, declaration_specifiers) ==
    IF declaration_specifiers = <<>>
    THEN Ok(spec)
    ELSE IF Len(declaration_specifiers) = 1
    THEN apply_declaration_specifier(spec, Head(declaration_specifiers))
    ELSE IF IsOk(apply_declaration_specifier(spec, Head(declaration_specifiers)))
    THEN Try(apply_declaration_specifier(spec, Head(declaration_specifiers)),
             LAMBDA next :
               ApplyDeclarationSpecifiersToTheEnd(next, Tail(declaration_specifiers)))
    ELSE Try(ApplyDeclarationSpecifiersToTheEnd(spec, Tail(declaration_specifiers)),
             LAMBDA last :
               apply_declaration_specifier(spec, Head(declaration_specifiers)))

RECURSIVE apply_declaration_specifiers(_, _)
apply_declaration_specifiers(spec, declaration_specifiers) ==
    IF declaration_specifiers = <<>>
    THEN Ok(spec)
    ELSE Try(apply_declaration_specifier(spec, Head(declaration_specifiers)),
             LAMBDA next : apply_declaration_specifiers(next, Tail(declaration_specifiers)))

(* The loop over the qualifiers of one pointer layer.                      *)
RECURSIVE apply_pointer_qualifiers(_, _)
apply_pointer_qualifiers(spec, pointer_qualifiers) ==
    IF pointer_qualifiers = <<>>
    THEN Ok(spec)
    ELSE Try(apply_pointer_qualifier(spec, Head(pointer_qualifiers)),
             LAMBDA next : apply_pointer_qualifiers(next, Tail(pointer_qualifiers)))

(* The accumulator that a batch leaves behind: the loop applies to the     *)
(* accumulator itself, so that after a failure it holds the specifiers     *)
(* before the one that failed.                                             *)
RECURSIVE AfterApplySpecifierQualifiers(_, _)
AfterApplySpecifierQualifiers(spec, typename_specifiers) ==
    IF typename_specifiers = <<>>
    THEN spec
    ELSE IF IsOk(apply_specifier_qualifier(spec, Head(typename_specifiers)))
    THEN AfterApplySpecifierQualifiers(
             apply_specifier_qualifier(spec, Head(typename_specifiers)).val,
             Tail(typename_specifiers))
    ELSE AfterApply(spec, apply_specifier_qualifier(spec, Head(typename_specifiers)))

RECURSIVE AfterApplyDeclarationSpecifiers(_, _)
AfterApplyDeclarationSpecifiers(spec, declaration_specifiers) ==
    IF declaration_specifiers = <<>>
    THEN spec
    ELSE IF IsOk(apply_declaration_specifier(spec, Head(declaration_specifiers)))
    THEN AfterApplyDeclarationSpecifiers(
             apply_declaration_specifier(spec, Head(declaration_specifiers)).val,
             Tail(declaration_specifiers))
    ELSE AfterApply(spec,
                    apply_declaration_specifier(spec, Head(declaration_specifiers)))

---------------------------------------------------------------------------
(* The conversions from the syntax tree.                                   *)

RECURSIVE TryFromBaseDtype(_)
RECURSIVE try_from_ast_struct_declaration(_)
RECURSIVE with_ast_declarator(_, _)
RECURSIVE TryFromParameterDeclaration(_)

(* u128 as usize keeps the low 64 bits; every array bound of the model is  *)
(* below 2^31, where that is the value itself.                             *)
AsUsize(value) == value

(* An array size that refuses zero as it refuses a negative value.        *)
WithAstArraySizeRejectsZero(dtype, array_size) ==
    IF array_size.form # "VariableExpression"
    THEN Panic("ArraySize is unsupported except ArraySize::VariableExpression")
    ELSE IF array_size.expr.constant = "None"
    THEN Panic("expression of ArraySize::VariableExpression must be constant value")
    ELSE IF array_size.expr.constant # "Int"
    THEN Err("expression is not an integer constant expression")
    ELSE IF array_size.expr.value <= 0
    THEN Err("declared as an array with a negative size")
    ELSE array(dtype, array_size.expr.value)

(* Dtype::with_ast_array_size.                                             *)
with_ast_array_size(dtype, array_size) ==
    IF array_size.form # "VariableExpression"
    THEN Panic("ArraySize is unsupported except ArraySize::VariableExpression")
    ELSE LET constant == array_size.expr
         IN  IF constant.constant = "None"
             THEN Panic("expression of ArraySize::VariableExpression must be constant value")
             ELSE IF constant.constant # "Int"
             THEN Err("expression is not an integer constant expression")
             ELSE IF constant.is_signed /\ constant.value < 0
             THEN Err("declared as an array with a negative size")
             ELSE array(dtype, AsUsize(constant.value))

(* The fields of a struct body: the declarations are converted in order    *)
(* up to the first that fails, and their fields are concatenated.          *)
RECURSIVE StructFields(_, _)
StructFields(declarations, acc) ==
    IF declarations = <<>>
    THEN Ok(acc)
    ELSE Try(try_from_ast_struct_declaration(Head(declarations)),
             LAMBDA fields : StructFields(Tail(declarations), acc \o fields))

(* A check of the field names that never finds a repeat.                  *)
CheckFieldNamesNever(fields, i, field_names) == Ok(fields)

(* The HashSet loop: the first named field whose name was met before is    *)
(* the error.                                                              *)
RECURSIVE CheckFieldNames(_, _, _)
CheckFieldNames(fields, i, field_names) ==
    IF i > Len(fields)
    THEN Ok(fields)
    ELSE LET name == fields[i].name
         IN  IF IsSome(name)
             THEN IF name[1] \in field_names
                  THEN [kind |-> "Err", msg |-> "is arleady used in struct",
                        name |-> name[1]]
                  ELSE CheckFieldNames(fields, i + 1, field_names \cup {name[1]})
             ELSE CheckFieldNames(fields, i + 1, field_names)

(* The scalar chosen by the base keyword, the default being int.           *)
ScalarOf(scalar) ==
    IF IsSome(scalar)
    THEN CASE scalar[1].ts = "Void" -> unit
           [] scalar[1].ts = "Bool" -> BOOL
           [] scalar[1].ts = "Char" -> CHAR
           [] scalar[1].ts = "Int" -> INT
           [] scalar[1].ts = "Float" -> FLOAT
           [] scalar[1].ts = "Double" -> DOUBLE
    ELSE DefaultDtype

(* Size modifiers that accept any two modifiers as long long.             *)
ApplySizeModifiersAnyTwo(dtype, size_modifiers) ==
    CASE Len(size_modifiers) = 0 -> Ok(dtype)
      [] Len(size_modifiers) = 1 ->
           IF size_modifiers[1].ts = "Short" THEN Ok(SHORT) ELSE Ok(LONG)
      [] Len(size_modifiers) = 2 -> Ok(LONGLONG)
      [] OTHER -> Err("two or more size modifiers in declaration specifiers")

(* Size modifiers of which a single one leaves a float as it is.          *)
ApplySizeModifiersKeepingFloat(dtype, size_modifiers) ==
    CASE Len(size_modifiers) = 0 -> Ok(dtype)
      [] Len(size_modifiers) = 1 ->
           IF dtype.tag = "Float" THEN Ok(dtype)
           ELSE IF size_modifiers[1].ts = "Short" THEN Ok(SHORT) ELSE Ok(LONG)
      [] Len(size_modifiers) = 2 ->
           IF size_modifiers[1].ts # "Long" \/ size_modifiers[2].ts # "Long"
           THEN Err("two or more size modifiers in declaration specifiers")
           ELSE Ok(LONGLONG)
      [] OTHER -> Err("two or more size modifiers in declaration specifiers")

(* The size modifiers replace the scalar.                                  *)
ApplySizeModifiers(dtype, size_modifiers) ==
    CASE Len(size_modifiers) = 0 -> Ok(dtype)
      [] Len(size_modifiers) = 1 ->
           IF size_modifiers[1].ts = "Short" THEN Ok(SHORT) ELSE Ok(LONG)
      [] Len(size_modifiers) = 2 ->
           IF size_modifiers[1].ts # "Long" \/ size_modifiers[2].ts # "Long"
           THEN Err("two or more size modifiers in declaration specifiers")
           ELSE Ok(LONGLONG)
      [] OTHER -> Err("two or more size modifiers in declaration specifiers")

(* A signedness that is dropped instead of being refused.                 *)
ApplySignedOptionToAny(dtype, signed_option) ==
    IF IsSome(signed_option) /\ dtype.tag = "Int"
    THEN Ok(DtypeInt(dtype.width, signed_option[1].ts = "Signed", dtype.is_const))
    ELSE Ok(dtype)

(* The signedness is set on an Int and is an error on anything else.       *)
ApplySignedOption(dtype, signed_option) ==
    IF IsSome(signed_option)
    THEN LET is_signed == signed_option[1].ts = "Signed"
         IN  IF get_int_width(dtype) = None
             THEN Err("signed and unsigned only be applied to Dtype::Int")
             ELSE set_signed(dtype, is_signed)
    ELSE Ok(dtype)

(* An emptiness test that lets the typedef flag count as content.         *)
IsEmptyUnlessTypedef(spec) ==
    /\ spec.scalar = None
    /\ spec.size_modifiers = <<>>
    /\ spec.signed_option = None
    /\ spec.typedef_name = None
    /\ spec.struct_type = None
    /\ ~spec.is_const
    /\ ~spec.is_typedef

(* The negated condition of the assert that opens the conversion.          *)
IsEmpty(spec) ==
    /\ spec.scalar = None
    /\ spec.size_modifiers = <<>>
    /\ spec.signed_option = None
    /\ spec.typedef_name = None
    /\ spec.struct_type = None
    /\ ~spec.is_const

(* impl TryFrom<BaseDtype> for Dtype.                                      *)
TryFromBaseDtype(spec) ==
    IF IsEmpty(spec)
    THEN Panic("BaseDtype is empty")
    ELSE IF IsSome(spec.typedef_name)
    THEN IF ~(/\ spec.scalar = None
              /\ spec.size_modifiers = <<>>
              /\ spec.signed_option = None
              /\ spec.struct_type = None)
         THEN Err("typedef can only be used with const")
         ELSE Ok(set_const(typedef(spec.typedef_name[1]), spec.is_const))
    ELSE IF IsSome(spec.struct_type)
    THEN IF ~(/\ spec.scalar = None
              /\ spec.size_modifiers = <<>>
              /\ spec.signed_option = None
              /\ spec.typedef_name = None)
         THEN Err("struct can only be used with const")
         ELSE LET struct_type == spec.struct_type[1]
              IN  IF struct_type.kind # "Struct"
                  THEN Panic("assertion failed: struct_type.kind")
                  ELSE Try(IF IsSome(struct_type.declarations)
                           THEN StructFields(struct_type.declarations[1], <<>>)
                           ELSE Ok(<<>>),
                           LAMBDA fields :
                             Try(CheckFieldNames(fields, 1, {}),
                                 LAMBDA checked :
                                   Ok(set_const(structure(struct_type.identifier,
                                                          fields),
                                                spec.is_const))))
    ELSE Try(ApplySizeModifiers(ScalarOf(spec.scalar), spec.size_modifiers),
             LAMBDA sized :
               Try(ApplySignedOption(sized, spec.signed_option),
                   LAMBDA signed : Ok(set_const(signed, spec.is_const))))

(* Dtype::try_from_ast_declaration_specifiers: Ok(<<dtype, is_typedef>>).  *)
try_from_ast_declaration_specifiers(specs) ==
    Try(apply_declaration_specifiers(BaseDtypeDefault, specs),
        LAMBDA spec :
          Try(TryFromBaseDtype(spec),
              LAMBDA dtype : Ok(<<dtype, spec.is_typedef>>)))

(* Declarators of one field declaration that are each applied to the dtype *)
(* of the field before them.                                               *)
RECURSIVE FieldsOfDeclaratorsCarrying(_, _, _)
FieldsOfDeclaratorsCarrying(dtype, declarators, acc) ==
    IF declarators = <<>>
    THEN Ok(acc)
    ELSE IF ~IsSome(Head(declarators).declarator)
    THEN Panic("called Option::unwrap() on a None value")
    ELSE Try(with_ast_declarator(dtype, Head(declarators).declarator[1]),
             LAMBDA field :
               FieldsOfDeclaratorsCarrying(field.inner, Tail(declarators),
                                           Append(acc, field)))

(* The declarators of one field declaration, each applied to the same base *)
(* dtype; a struct declarator without a declarator is an unwrap of None.   *)
RECURSIVE FieldsOfDeclarators(_, _, _)
FieldsOfDeclarators(dtype, declarators, acc) ==
    IF declarators = <<>>
    THEN Ok(acc)
    ELSE LET d == Head(declarators).declarator
         IN  IF ~IsSome(d)
             THEN Panic("called Option::unwrap() on a None value")
             ELSE Try(with_ast_declarator(dtype, d[1]),
                      LAMBDA field :
                        FieldsOfDeclarators(dtype, Tail(declarators),
                                            Append(acc, field)))

(* Dtype::try_from_ast_struct_declaration.                                 *)
try_from_ast_struct_declaration(declaration) ==
    IF declaration.sd # "Field"
    THEN Panic("ast::StructDeclaration::StaticAssert is unsupported")
    ELSE Try(apply_specifier_qualifiers(BaseDtypeDefault, declaration.specifiers),
             LAMBDA spec :
               Try(TryFromBaseDtype(spec),
                   LAMBDA dtype :
                     Try(FieldsOfDeclarators(dtype, declaration.declarators, <<>>),
                         LAMBDA fields :
                           IF fields = <<>>
                           THEN Ok(<<Named(None, dtype)>>)
                           ELSE Ok(fields))))

(* The parameters of a function declarator, converted in order up to the   *)
(* first that fails.                                                       *)
RECURSIVE ParameterDtypes(_, _)
ParameterDtypes(parameters, acc) ==
    IF parameters = <<>>
    THEN Ok(acc)
    ELSE Try(TryFromParameterDeclaration(Head(parameters)),
             LAMBDA param : ParameterDtypes(Tail(parameters), Append(acc, param)))

(* A parameter list that drops a lone void whatever its qualifiers.        *)
RemoveVoidParameterOfAnyConst(params) ==
    IF Len(params) = 1 /\ params[1].tag = "Unit" THEN <<>> ELSE params

(* If function parameter is (void), remove it: the one parameter is        *)
(* compared with Dtype::unit(), which is not const.                        *)
RemoveVoidParameter(params) ==
    IF Len(params) = 1 /\ params[1] = unit THEN <<>> ELSE params

(* A pointer layer that is const also when its pointee is a const pointer. *)
PointerLayerConstOfPointee(dtype, pointer_qualifiers) ==
    Try(apply_pointer_qualifiers(BaseDtypeDefault, pointer_qualifiers),
        LAMBDA specifier :
          Ok(set_const(pointer(dtype),
                       \/ specifier.is_const
                       \/ dtype.tag = "Pointer" /\ dtype.is_const)))

(* The arms of the loop of with_ast_declarator over the derived            *)
(* declarators.                                                            *)
PointerLayer(dtype, pointer_qualifiers) ==
    Try(apply_pointer_qualifiers(BaseDtypeDefault, pointer_qualifiers),
        LAMBDA specifier : Ok(set_const(pointer(dtype), specifier.is_const)))

ArrayLayer(dtype, array_decl) ==
    IF array_decl.qualifiers # <<>>
    THEN Panic("assertion failed: array_decl.node.qualifiers.is_empty()")
    ELSE with_ast_array_size(dtype, array_decl.size)

FunctionLayer(dtype, func_decl) ==
    Try(ParameterDtypes(func_decl.parameters, <<>>),
        LAMBDA params : Ok(function(dtype, RemoveVoidParameter(params))))

KRFunctionLayer(dtype, kr_func_decl) ==
    IF kr_func_decl.identifiers # <<>>
    THEN Panic("assertion failed: kr_func_decl.is_empty()")
    ELSE Ok(function(dtype, <<>>))

DerivedLayer(dtype, derived_decl) ==
    CASE derived_decl.dd = "Pointer" -> PointerLayer(dtype, derived_decl.qualifiers)
      [] derived_decl.dd = "Array" -> ArrayLayer(dtype, derived_decl)
      [] derived_decl.dd = "Function" -> FunctionLayer(dtype, derived_decl)
      [] derived_decl.dd = "KRFunction" -> KRFunctionLayer(dtype, derived_decl)

RECURSIVE FoldDerived(_, _)
FoldDerived(dtype, derived) ==
    IF derived = <<>>
    THEN Ok(dtype)
    ELSE Try(DerivedLayer(dtype, Head(derived)),
             LAMBDA next : FoldDerived(next, Tail(derived)))

(* A resolver that resolves the parenthesized core on the base type first  *)
(* and folds the outer layers over what the core gave.                     *)
RECURSIVE WithAstDeclaratorCoreFirst(_, _)
WithAstDeclaratorCoreFirst(dtype, decl) ==
    IF decl.kind.k = "Declarator"
    THEN Try(WithAstDeclaratorCoreFirst(dtype, decl.kind.declarator),
             LAMBDA named :
               Try(FoldDerived(named.inner, decl.derived),
                   LAMBDA folded : Ok(Named(named.name, folded))))
    ELSE Try(FoldDerived(dtype, decl.derived),
             LAMBDA folded :
               Ok(Named(IF decl.kind.k = "Identifier"
                        THEN Some(decl.kind.name) ELSE None, folded)))

(* Dtype::with_ast_declarator: Ok(Named(name, dtype)).                     *)
with_ast_declarator(dtype, decl) ==
    Try(FoldDerived(dtype, decl.derived),
        LAMBDA folded :
          CASE decl.kind.k = "Abstract" -> Ok(Named(None, folded))
            [] decl.kind.k = "Identifier" ->
                 Ok(Named(Some(decl.kind.name), folded))
            [] decl.kind.k = "Declarator" ->
                 with_ast_declarator(folded, decl.kind.declarator))

(* impl TryFrom<&ast::TypeName> for Dtype.                                 *)
TryFromTypeName(type_name) ==
    Try(apply_specifier_qualifiers(BaseDtypeDefault, type_name.specifiers),
        LAMBDA spec :
          Try(TryFromBaseDtype(spec),
              LAMBDA dtype :
                IF IsSome(type_name.declarator)
                THEN Try(with_ast_declarator(dtype, type_name.declarator[1]),
                         LAMBDA named : Ok(named.inner))
                ELSE Ok(dtype)))

(* A decay that turns every dimension of the array into the pointer.       *)
RECURSIVE ElementOf(_)
ElementOf(d) == IF d.tag = "Array" THEN ElementOf(d.inner) ELSE d

ArrayToPointerOfElement(dtype) ==
    IF IsSome(get_array_inner(dtype))
    THEN pointer(ElementOf(dtype))
    ELSE dtype

(* A function call with an array argument performs array-to-pointer        *)
(* conversion: an array parameter becomes a pointer to the array's inner.  *)
ArrayToPointer(dtype) ==
    LET inner == get_array_inner(dtype)
    IN  IF IsSome(inner) THEN pointer(inner[1]) ELSE dtype

(* impl TryFrom<&ast::ParameterDeclaration> for Dtype.                     *)
TryFromParameterDeclaration(parameter_decl) ==
    Try(apply_declaration_specifiers(BaseDtypeDefault, parameter_decl.specifiers),
        LAMBDA spec :
          Try(TryFromBaseDtype(spec),
              LAMBDA dtype :
                IF IsSome(parameter_decl.declarator)
                THEN Try(with_ast_declarator(dtype, parameter_decl.declarator[1]),
                         LAMBDA named : Ok(ArrayToPointer(named.inner)))
                ELSE Ok(dtype)))

---------------------------------------------------------------------------
(* Bounded sets of Dtype trees.                                            *)

\* the deepest nesting of the trees given to resolve_typedefs
MaxDepth == 2

\* the deepest nesting of the trees given to is_const and size_align_of
MaxQueryDepth == 2

\* the largest array size of a generated tree
MaxSize == 3

(* One more layer over the trees of S: a pointer to one, an array of one,  *)
(* a struct with one as its only, its first or its second field, and a     *)
(* function returning one or taking one as its first or second parameter.  *)
(* sibs are the other fields or parameters, sizes the array sizes.  An     *)
(* array of functions cannot be built (Dtype::array panics), so none is    *)
(* generated.                                                              *)
Layer(S, sibs, sizes) ==
    {DtypePointer(i, c) : i \in S, c \in BOOLEAN}
    \cup {DtypeArray(i, n) : i \in {j \in S : j.tag # "Function"}, n \in sizes}
    \cup {DtypeStruct(None, <<Named(Some("x"), i)>>, c) : i \in S, c \in BOOLEAN}
    \cup {DtypeStruct(Some("S"), <<Named(Some("x"), i), Named(Some("y"), sib)>>,
                      FALSE) : i \in S, sib \in sibs}
    \cup {DtypeStruct(Some("S"), <<Named(Some("x"), sib), Named(None, i)>>,
                      FALSE) : i \in S, sib \in sibs}
    \cup {DtypeFunction(i, <<>>) : i \in S}
    \cup {DtypeFunction(INT, <<i, sib>>) : i \in S, sib \in sibs}
    \cup {DtypeFunction(INT, <<sib, i>>) : i \in S, sib \in sibs}

RECURSIVE DtypesUpTo(_, _, _, _)
DtypesUpTo(leaves, sibs, sizes, depth) ==
    IF depth = 0
    THEN leaves
    ELSE leaves \cup Layer(DtypesUpTo(leaves, sibs, sizes, depth - 1), sibs, sizes)

CONST_INT == set_const(INT, TRUE)

(* The trees given to resolve_typedefs: typedef names A and B at any       *)
(* depth, beside plain scalars.                                            *)
TypedefLeaves ==
    {INT, DtypeTypedef("A", FALSE), DtypeTypedef("A", TRUE),
     DtypeTypedef("B", FALSE)}

TypedefDtypes ==
    DtypesUpTo(TypedefLeaves, {DtypeTypedef("A", FALSE)}, {MaxSize}, MaxDepth)

(* The environments.  The entry of A is typedef-free or mentions B (as the *)
(* entry itself, or under a pointer, an array, a struct field or a         *)
(* function); the entry of B is typedef-free or is the name A, so that     *)
(* some environments are cyclic.  Either name may be absent.               *)
EntriesOfB == {CONST_INT, DtypeTypedef("A", FALSE)}

EntriesOfA ==
    {INT, CONST_INT, DtypePointer(INT, FALSE),
     DtypeStruct(None, <<Named(Some("x"), INT)>>, FALSE)}
    \cup Layer({CONST_INT}, {INT}, {MaxSize})
    \cup {DtypeTypedef("B", FALSE)}
    \cup Layer({DtypeTypedef("B", FALSE)}, {CONST_INT}, {MaxSize})

Environments ==
    {[n \in {} |-> INT]}
    \cup {[n \in {"A"} |-> a] : a \in EntriesOfA}
    \cup {[n \in {"B"} |-> b] : b \in EntriesOfB}
    \cup {[n \in {"A", "B"} |-> IF n = "A" THEN e[1] ELSE e[2]] :
             e \in EntriesOfA \X EntriesOfB}

---------------------------------------------------------------------------
(* The typedef resolver: a tree and an environment are given, the tree is  *)
(* resolved, and a resolved tree may be stored and resolved again.         *)

NoResult == [kind |-> "None"]

InitTypedef ==
    /\ pc = "init"
    /\ op = "none"
    /\ self \in TypedefDtypes
    /\ typedefs \in Environments
    /\ specifiers = <<>>
    /\ declarator = None
    /\ result = NoResult

ResolveTypedefs ==
    /\ pc = "init"
    /\ pc' = "done"
    /\ op' = "resolve_typedefs"
    /\ result' = resolve_typedefs(self, typedefs)
    /\ UNCHANGED <<self, typedefs, specifiers, declarator>>

(* The caller keeps the resolved tree, which may be resolved again.        *)
StoreResolved ==
    /\ pc = "done"
    /\ op = "resolve_typedefs"
    /\ IsOk(result)
    /\ result.val # self
    /\ pc' = "init"
    /\ op' = "none"
    /\ self' = result.val
    /\ result' = NoResult
    /\ UNCHANGED <<typedefs, specifiers, declarator>>

NextTypedef == ResolveTypedefs \/ StoreResolved

SpecTypedef == InitTypedef /\ [][NextTypedef]_vars

---------------------------------------------------------------------------
(* Properties of the typedef resolver.                                     *)

RECURSIVE HasTypedef(_)
HasTypedef(d) ==
    CASE d.tag = "Typedef" -> TRUE
      [] d.tag \in {"Pointer", "Array"} -> HasTypedef(d.inner)
      [] d.tag = "Struct" ->
           \E i \in 1..Len(d.fields) : HasTypedef(d.fields[i].inner)
      [] d.tag = "Function" ->
           HasTypedef(d.ret) \/ \E i \in 1..Len(d.params) : HasTypedef(d.params[i])
      [] OTHER -> FALSE

RECURSIVE MentionsUnknown(_, _)
MentionsUnknown(d, tds) ==
    CASE d.tag = "Typedef" -> d.name \notin DOMAIN tds
      [] d.tag \in {"Pointer", "Array"} -> MentionsUnknown(d.inner, tds)
      [] d.tag = "Struct" ->
           \E i \in 1..Len(d.fields) : MentionsUnknown(d.fields[i].inner, tds)
      [] d.tag = "Function" ->
           \/ MentionsUnknown(d.ret, tds)
           \/ \E i \in 1..Len(d.params) : MentionsUnknown(d.params[i], tds)
      [] OTHER -> FALSE

Resolved == pc = "done" /\ op = "resolve_typedefs"

(* C5: a tree that resolve_typedefs returns with Ok holds no Typedef at    *)
(* any depth, whatever the (acyclic) environment, also when an entry of    *)
(* the environment mentions another typedef name.                          *)
C5_ResolvedHasNoTypedef ==
    (Resolved /\ IsOk(result)) => ~HasTypedef(result.val)

(* C6: when the tree holds, at any depth, a Typedef whose name is not a    *)
(* key of the environment, resolve_typedefs returns the DtypeError         *)
(* "unknown type name".                                                    *)
C6_UnknownNameIsError ==
    (Resolved /\ MentionsUnknown(self, typedefs))
        => result.kind = "Err" /\ result.msg = "unknown type name"

C8_TypedefFreeIsFixed ==
    (Resolved /\ ~HasTypedef(self)) => result = Ok(self)

(* A typedef-free struct behind a const pointer, resolved against an       *)
(* environment that is not empty.                                          *)
C8_Witness ==
    /\ Resolved
    /\ ~HasTypedef(self)
    /\ self.tag = "Pointer"
    /\ self.is_const
    /\ self.inner.tag = "Struct"
    /\ DOMAIN typedefs = {"A", "B"}
    /\ result = Ok(self)

---------------------------------------------------------------------------
(* The queries on a finished Dtype.                                        *)

(* Every scalar the conversion from specifiers can give, and the leaves    *)
(* that the nested trees are built from.                                   *)
Scalars == {unit, BOOL, CHAR, SHORT, INT, LONG, FLOAT, DOUBLE, CONST_INT}

QueryLeaves == {unit, BOOL, INT, CONST_INT, DtypeTypedef("A", FALSE)}

(* The structs whose only field is an array of two or three dimensions of  *)
(* int or const int.                                                       *)
ArrayFieldStructs ==
    {DtypeStruct(Some("S"), <<Named(Some("a"), a)>>, c) :
         a \in {DtypeArray(DtypeArray(e, 3), 2) : e \in {INT, CONST_INT}}
               \cup {DtypeArray(DtypeArray(DtypeArray(INT, 4), 3), 2)},
         c \in BOOLEAN}

QueryDtypes ==
    Scalars
    \cup DtypesUpTo(QueryLeaves, {INT, CONST_INT}, 0..MaxSize, MaxQueryDepth)
    \cup ArrayFieldStructs

InitQuery ==
    /\ pc = "init"
    /\ op = "none"
    /\ self \in QueryDtypes
    /\ typedefs = [n \in {} |-> INT]
    /\ specifiers = <<>>
    /\ declarator = None
    /\ result = NoResult

IsConst ==
    /\ pc = "init"
    /\ pc' = "done"
    /\ op' = "is_const"
    /\ result' = is_const(self)
    /\ UNCHANGED <<self, typedefs, specifiers, declarator>>

SizeAlignOf ==
    /\ pc = "init"
    /\ pc' = "done"
    /\ op' = "size_align_of"
    /\ result' = size_align_of(self)
    /\ UNCHANGED <<self, typedefs, specifiers, declarator>>

NextQuery == IsConst \/ SizeAlignOf

SpecQuery == InitQuery /\ [][NextQuery]_vars

(* Constness as the specification words it.                                *)
RECURSIVE ConstAsSpecified(_)
ConstAsSpecified(d) ==
    CASE d.tag \in {"Unit", "Int", "Float", "Pointer"} -> d.is_const
      [] d.tag \in {"Array", "Function"} -> TRUE
      [] d.tag = "Struct" ->
           \/ d.is_const
           \/ \E i \in 1..Len(d.fields) :
                 LET f == d.fields[i].inner
                 IN  IF f.tag = "Array"
                     THEN ConstAsSpecified(f.inner)
                     ELSE ConstAsSpecified(f)

(* C9: on a typedef-free Dtype is_const is the own flag of Unit, Int,      *)
(* Float and Pointer, true for Array and Function, and for a Struct its    *)
(* own flag or the constness of some field, an array field being judged by *)
(* its element type.                                                       *)
C9_IsConstAsSpecified ==
    (pc = "done" /\ op = "is_const" /\ ~HasTypedef(self))
        => result = Ok(ConstAsSpecified(self))

(* A struct whose only field is an array of non-const int is not const.    *)
C9_Witness ==
    /\ pc = "done"
    /\ op = "is_const"
    /\ self = DtypeStruct(None, <<Named(Some("x"), DtypeArray(INT, MaxSize))>>, FALSE)
    /\ result = Ok(FALSE)

(* ceil(width / 8), without the code's rounding trick.                     *)
BytesOf(width) == CHOOSE n \in 0..width : 8 * n >= width /\ 8 * (n - 1) < width

(* C10: size_align_of is (0, 1) for Unit and Function, (ceil(width/8),     *)
(* ceil(width/8)) for Int and Float, (P, P) for Pointer, and for an array  *)
(* (size * max(s, a), a) with (s, a) the element's size and alignment; an  *)
(* error or abort of the element is the array's.                           *)
C10_SizeAlignAsSpecified ==
    (pc = "done" /\ op = "size_align_of") =>
        CASE self.tag \in {"Unit", "Function"} -> result = Ok(<<0, 1>>)
          [] self.tag \in {"Int", "Float"} /\ self.width \in {1, 8, 16, 32, 64} ->
               result = Ok(<<BytesOf(self.width), BytesOf(self.width)>>)
          [] self.tag = "Pointer" ->
               result = Ok(<<SIZE_OF_POINTER, SIZE_OF_POINTER>>)
          [] self.tag = "Array" ->
               LET e == size_align_of(self.inner)
               IN  IF IsOk(e)
                   THEN result = Ok(<<self.size * Max(e.val[1], e.val[2]),
                                      e.val[2]>>)
                   ELSE result = e
          [] OTHER -> TRUE

(* Array{size: 3, inner: Int32} is 12 bytes, aligned to 4.                 *)
C10_Witness ==
    /\ pc = "done"
    /\ op = "size_align_of"
    /\ self = DtypeArray(INT, 3)
    /\ result = Ok(<<12, 4>>)

---------------------------------------------------------------------------
(* Declarations: a list of declaration specifiers and a declarator.        *)

\* the longest chain of pointer and array layers of a generated declarator
MaxDerived == 3

\* the longest parameter list of a generated function declarator
MaxParams == 2

SeqsUpTo(S, n) == UNION {[1..k -> S] : k \in 0..n}

Const == TQ("Const")

PointerTo == DDPointer(<<>>)

ConstPointerTo == DDPointer(<<PQTypeQualifier(Const)>>)

ArrayDim(n) == DDArray(<<>>, VariableExpression(ExprInt(n, TRUE)))

(* struct S { int x; }                                                     *)
StructS ==
    StructType("Struct", Some("S"),
               Some(<<StructField(<<SQTypeSpecifier(TS("Int"))>>,
                                  <<StructDeclarator(
                                      Some(Declarator(KindIdentifier("x"), <<>>)))>>)>>))

(* int; const float; void; A; struct S { int x; }; typedef int; and the    *)
(* lists that do not convert: int float, and no specifier at all.          *)
SpecifierLists ==
    {<<DSTypeSpecifier(TS("Int"))>>,
     <<DSTypeQualifier(Const), DSTypeSpecifier(TS("Float"))>>,
     <<DSTypeSpecifier(TS("Void"))>>,
     <<DSTypeSpecifier(TSTypedefName("A"))>>,
     <<DSTypeSpecifier(TSStruct(StructS))>>,
     <<DSStorageClass(SC("Typedef")), DSTypeSpecifier(TS("Int"))>>,
     <<DSTypeSpecifier(TS("Int")), DSTypeSpecifier(TS("Float"))>>,
     <<>>}

(* The layers that resolve: a pointer, a const pointer, an array whose     *)
(* bound is a signed constant 1..MaxSize.                                  *)
GoodLayers == {PointerTo, ConstPointerTo} \cup {ArrayDim(n) : n \in 1..MaxSize}

(* The layers that do not, or that are special: a negative bound, a bound  *)
(* that is no integer or no constant, [], a qualified array, the unsigned  *)
(* bounds 0 and 2, pointer qualifiers the code does not support, a pointer *)
(* with const twice, and K&R function declarators.                         *)
OddLayers ==
    {ArrayDim(-1),
     DDPointer(<<PQTypeQualifier(Const), PQTypeQualifier(Const)>>),
     DDArray(<<>>, VariableExpression(ExprInt(0, FALSE))),
     DDArray(<<>>, VariableExpression(ExprInt(2, FALSE))),
     DDArray(<<>>, VariableExpression(ExprFloat)),
     DDArray(<<>>, VariableExpression(ExprNotConstant)),
     DDArray(<<>>, ArraySizeUnknown),
     DDArray(<<Const>>, VariableExpression(ExprInt(2, TRUE))),
     DDPointer(<<PQTypeQualifier(TQ("Volatile"))>>),
     DDPointer(<<PQExtension>>),
     DDKRFunction(<<>>),
     DDKRFunction(<<"x">>)}

ChainDerived == SeqsUpTo(GoodLayers, MaxDerived)

OddDerived ==
    {<<l>> : l \in OddLayers} \cup {<<ArrayDim(2), l>> : l \in OddLayers}

(* The parameter declarations: void, const void, void x, int, int p[10],   *)
(* int p[2][3], int pointer p, A p, and two that do not convert: int p[-1] and    *)
(* int int.                                                                *)
Param(specs, decl) == ParameterDeclaration(specs, decl)

ParameterDeclarations ==
    {Param(<<DSTypeSpecifier(TS("Void"))>>, None),
     Param(<<DSTypeQualifier(Const), DSTypeSpecifier(TS("Void"))>>, None),
     Param(<<DSTypeSpecifier(TS("Void"))>>,
           Some(Declarator(KindIdentifier("x"), <<>>))),
     Param(<<DSTypeSpecifier(TS("Int"))>>, None),
     Param(<<DSTypeSpecifier(TS("Int"))>>,
           Some(Declarator(KindIdentifier("p"), <<ArrayDim(10)>>))),
     Param(<<DSTypeSpecifier(TS("Int"))>>,
           Some(Declarator(KindIdentifier("p"), <<ArrayDim(2), ArrayDim(3)>>))),
     Param(<<DSTypeSpecifier(TS("Int"))>>,
           Some(Declarator(KindIdentifier("p"), <<PointerTo>>))),
     Param(<<DSTypeSpecifier(TSTypedefName("A"))>>,
           Some(Declarator(KindIdentifier("p"), <<>>))),
     Param(<<DSTypeSpecifier(TS("Int"))>>,
           Some(Declarator(KindIdentifier("p"), <<ArrayDim(-1)>>))),
     Param(<<DSTypeSpecifier(TS("Int")), DSTypeSpecifier(TS("Int"))>>, None)}

ParameterLists == SeqsUpTo(ParameterDeclarations, MaxParams)

(* A function declarator: alone, after or before a pointer layer, after or *)
(* before an array layer.                                                  *)
FunctionDerived ==
    UNION {{<<DDFunction(ps)>>,
            <<PointerTo, DDFunction(ps)>>,
            <<DDFunction(ps), ConstPointerTo>>,
            <<ArrayDim(2), DDFunction(ps)>>,
            <<DDFunction(ps), ArrayDim(2)>>} : ps \in ParameterLists}

PlainKinds == {KindAbstract, KindIdentifier("a")}

(* The cores of a parenthesized declarator: pointer a, pointer a[2], an    *)
(* abstract pointer, and a core whose own core is parenthesized.           *)
NestedKinds ==
    {KindDeclarator(Declarator(KindIdentifier("a"), <<PointerTo>>)),
     KindDeclarator(Declarator(KindIdentifier("a"), <<PointerTo, ArrayDim(2)>>)),
     KindDeclarator(Declarator(KindAbstract, <<PointerTo>>)),
     KindDeclarator(Declarator(
         KindDeclarator(Declarator(KindIdentifier("a"), <<ConstPointerTo>>)),
         <<ArrayDim(2)>>))}

ChainDeclarators ==
    {Declarator(k, d) : k \in PlainKinds \cup NestedKinds, d \in ChainDerived}
    \cup {Declarator(k, d) : k \in PlainKinds, d \in OddDerived}

FunctionDeclarators ==
    {Declarator(k, d) : k \in PlainKinds, d \in FunctionDerived}

NoDtype == [tag |-> "None"]

NoTypedefs == [n \in {} |-> INT]

InitDeclarator ==
    /\ pc = "init"
    /\ op = "none"
    /\ self = NoDtype
    /\ typedefs = NoTypedefs
    /\ result = NoResult
    /\ \/ /\ specifiers \in SpecifierLists
          /\ declarator \in {None} \cup {Some(d) : d \in ChainDeclarators}
       \/ /\ specifiers = <<DSTypeSpecifier(TS("Int"))>>
          /\ declarator \in {Some(d) : d \in FunctionDeclarators}

(* The caller of with_ast_declarator first converts the specifiers into    *)
(* the base dtype.                                                         *)
TryFromAstDeclarationSpecifiers ==
    /\ pc = "init"
    /\ result' = try_from_ast_declaration_specifiers(specifiers)
    /\ pc' = IF IsOk(result') THEN "base" ELSE "done"
    /\ self' = IF IsOk(result') THEN result'.val[1] ELSE self
    /\ op' = "try_from_ast_declaration_specifiers"
    /\ UNCHANGED <<typedefs, specifiers, declarator>>

WithAstDeclarator ==
    /\ pc = "base"
    /\ IsSome(declarator)
    /\ pc' = "done"
    /\ op' = "with_ast_declarator"
    /\ result' = with_ast_declarator(self, declarator[1])
    /\ UNCHANGED <<self, typedefs, specifiers, declarator>>

(* The same specifiers and declarator, read as a parameter declaration.    *)
ParameterTryFrom ==
    /\ pc = "init"
    /\ pc' = "done"
    /\ op' = "TryFromParameterDeclaration"
    /\ result' = TryFromParameterDeclaration(
                     ParameterDeclaration(specifiers, declarator))
    /\ UNCHANGED <<self, typedefs, specifiers, declarator>>

(* The same, read as a type name, which has no storage class.              *)
TypeNameTryFrom ==
    /\ pc = "init"
    /\ \A i \in 1..Len(specifiers) : specifiers[i].ds # "StorageClass"
    /\ pc' = "done"
    /\ op' = "TryFromTypeName"
    /\ result' = TryFromTypeName(
                     TypeName([i \in 1..Len(specifiers) |->
                                  IF specifiers[i].ds = "TypeSpecifier"
                                  THEN SQTypeSpecifier(specifiers[i].node)
                                  ELSE SQTypeQualifier(specifiers[i].node)],
                              declarator))
    /\ UNCHANGED <<self, typedefs, specifiers, declarator>>

(* The environments that a declared type is resolved against: A is int, or *)
(* A is int[3].                                                            *)
DeclaredEnvironments ==
    {[n \in {"A"} |-> e] : e \in {INT, DtypeArray(INT, 3)}}

(* The caller resolves the typedef names of the type it has declared.      *)
ResolveDeclared ==
    /\ pc = "done"
    /\ op = "with_ast_declarator"
    /\ IsOk(result)
    /\ pc' = "resolved"
    /\ op' = "resolve_typedefs"
    /\ self' = result.val.inner
    /\ typedefs' \in DeclaredEnvironments
    /\ result' = resolve_typedefs(self', typedefs')
    /\ UNCHANGED <<specifiers, declarator>>

NextDeclarator ==
    \/ TryFromAstDeclarationSpecifiers
    \/ WithAstDeclarator
    \/ ParameterTryFrom
    \/ TypeNameTryFrom
    \/ ResolveDeclared

SpecDeclarator == InitDeclarator /\ [][NextDeclarator]_vars

---------------------------------------------------------------------------
(* Properties of the declarator resolver.                                  *)

Declared == pc = "done" /\ op = "with_ast_declarator"

NameOf(kind) == IF kind.k = "Identifier" THEN Some(kind.name) ELSE None

IsArrayDim(layer) == layer.dd = "Array" /\ layer \in GoodLayers

RECURSIVE Nest(_, _)
Nest(sizes, T) ==
    IF sizes = <<>> THEN T ELSE DtypeArray(Nest(Tail(sizes), T), Head(sizes))

SizesOf(layers) == [i \in 1..Len(layers) |-> layers[i].size.expr.value]

(* The layers before position k give T, the dimensions after it nest.      *)
DimensionsNest(decl, T, k) ==
    IsOk(T) =>
        result = Ok(Named(NameOf(decl.kind),
                          Nest(SizesOf(SubSeq(decl.derived, k + 1,
                                              Len(decl.derived))),
                               T.val)))

(* C1: array dimensions s1 .. sn (n >= 1) written after a type T that is   *)
(* neither an Array nor a Function (the base type, or the pointer that the *)
(* layers before them end in) give Array{s1, Array{s2, .. Array{sn, T}}}:  *)
(* the first-written dimension is the outermost.                           *)
C1_ArrayDimensionsNest ==
    (Declared /\ declarator[1].kind.k # "Declarator") =>
        \A k \in 0..(Len(declarator[1].derived) - 1) :
            (/\ \A i \in (k + 1)..Len(declarator[1].derived) :
                   IsArrayDim(declarator[1].derived[i])
             /\ k > 0 => declarator[1].derived[k].dd = "Pointer")
            => DimensionsNest(declarator[1],
                              FoldDerived(self, SubSeq(declarator[1].derived, 1, k)),
                              k)

(* int a[2][3] is Array{2, Array{3, Int32}}.                               *)
C1_Witness ==
    /\ Declared
    /\ self = INT
    /\ declarator = Some(Declarator(KindIdentifier("a"), <<ArrayDim(2), ArrayDim(3)>>))
    /\ result = Ok(Named(Some("a"), DtypeArray(DtypeArray(INT, 3), 2)))

ParameterConverted == pc = "done" /\ op = "TryFromParameterDeclaration"

(* What the claim expects of the dtype that the declarator yields.         *)
Decayed(named) ==
    IsOk(named) =>
        result = IF named.val.inner.tag = "Array"
                 THEN Ok(DtypePointer(named.val.inner.inner, FALSE))
                 ELSE Ok(named.val.inner)

DecayedFrom(base) ==
    IsOk(base) =>
        IF IsSome(declarator)
        THEN Decayed(with_ast_declarator(base.val[1], declarator[1]))
        ELSE result = Ok(base.val[1])

(* C2: a parameter declaration whose declarator yields Array{E, n} gives   *)
(* Pointer{E, const: false}: only the outermost array layer decays and E   *)
(* is kept; any other dtype is returned unchanged.                         *)
C2_ParameterArrayDecays ==
    ParameterConverted =>
        DecayedFrom(try_from_ast_declaration_specifiers(specifiers))

(* int p[2][3] is Pointer{Array{3, Int32}}.                                *)
C2_Witness ==
    /\ ParameterConverted
    /\ specifiers = <<DSTypeSpecifier(TS("Int"))>>
    /\ declarator = Some(Declarator(KindIdentifier("a"), <<ArrayDim(2), ArrayDim(3)>>))
    /\ result = Ok(DtypePointer(DtypeArray(INT, 3), FALSE))

(* The declarator ends in a function declarator.                           *)
EndsInFunction ==
    /\ Declared
    /\ declarator[1].kind.k # "Declarator"
    /\ declarator[1].derived # <<>>
    /\ declarator[1].derived[Len(declarator[1].derived)].dd = "Function"

LastLayer == declarator[1].derived[Len(declarator[1].derived)]

FunctionOf(current, params) ==
    Ok(Named(NameOf(declarator[1].kind), DtypeFunction(current.val, params)))

LoneUnitDropped(current, params) ==
    (IsOk(current) /\ IsOk(params)) =>
        result = FunctionOf(current,
                            IF Len(params.val) = 1 /\ params.val[1].tag = "Unit"
                            THEN <<>>
                            ELSE params.val)

LoneVoidDropped(current, params) ==
    (IsOk(current) /\ IsOk(params)) =>
        result = FunctionOf(current,
                            IF params.val = <<DtypeUnit(FALSE)>>
                            THEN <<>>
                            ELSE params.val)

(* C3 as stated: a parameter list of exactly one parameter whose derived   *)
(* type is the Unit variant gives Function{ret: current, params: []}, and  *)
(* every other list keeps all of its parameters in order.                  *)
C3_LoneUnitParameterIsDropped ==
    EndsInFunction =>
        LoneUnitDropped(
            FoldDerived(self, SubSeq(declarator[1].derived, 1,
                                     Len(declarator[1].derived) - 1)),
            ParameterDtypes(LastLayer.parameters, <<>>))

(* C3, amended: a parameter list of exactly one parameter whose derived    *)
(* type equals Unit{is_const: false} gives Function{ret: current,          *)
(* params: []}; every other list, a lone const void included, keeps all of *)
(* its parameters in order.                                                *)
C3_LoneVoidParameterIsDropped ==
    EndsInFunction =>
        LoneVoidDropped(
            FoldDerived(self, SubSeq(declarator[1].derived, 1,
                                     Len(declarator[1].derived) - 1)),
            ParameterDtypes(LastLayer.parameters, <<>>))

VoidParameter == Param(<<DSTypeSpecifier(TS("Void"))>>, None)

(* int a(void) is Function{Int32, []}.                                     *)
C3_Witness ==
    /\ EndsInFunction
    /\ self = INT
    /\ declarator[1].derived = <<DDFunction(<<VoidParameter>>)>>
    /\ result = Ok(Named(NameOf(declarator[1].kind), DtypeFunction(INT, <<>>)))

(* C4: a function declarator with two or more parameters, one of them a    *)
(* plain void, is not accepted: with_ast_declarator does not return Ok.    *)
C4_VoidAmongParametersIsRejected ==
    Declared =>
        \A i \in 1..Len(declarator[1].derived) :
            (/\ declarator[1].derived[i].dd = "Function"
             /\ Len(declarator[1].derived[i].parameters) >= 2
             /\ \E j \in 1..Len(declarator[1].derived[i].parameters) :
                   declarator[1].derived[i].parameters[j] = VoidParameter)
            => ~IsOk(result)

---------------------------------------------------------------------------
(* The accumulator and its conversion: a list of specifiers is applied to  *)
(* an empty BaseDtype, which is then converted.                            *)

\* the longest generated list of specifiers
MaxSpecifiers == 3

\* the most field declarations of a generated struct body
MaxFields == 2

(* The type specifiers: the scalars, the size modifiers, the signedness    *)
(* keywords, a typedef name, a struct specifier, and one that the code     *)
(* does not support.                                                       *)
TypeSpecifiers ==
    {TS(k) : k \in {"Void", "Bool", "Char", "Int", "Float", "Double", "Short",
                    "Long", "Signed", "Unsigned", "Complex"}}
    \cup {TSTypedefName("A"), TSStruct(StructS)}

SpecifierTokens ==
    {DSTypeSpecifier(t) : t \in TypeSpecifiers}
    \cup {DSTypeQualifier(Const), DSTypeQualifier(TQ("Volatile")),
          DSStorageClass(SC("Typedef")), DSStorageClass(SC("Extern"))}

Field(name) == StructDeclarator(Some(Declarator(KindIdentifier(name), <<>>)))

IntField(derived) ==
    StructField(<<SQTypeSpecifier(TS("Int"))>>,
                <<StructDeclarator(Some(Declarator(KindIdentifier("x"), derived)))>>)

(* The field declarations int or float, each with one or two declarators   *)
(* named x or y, or with none (an anonymous field).                        *)
FieldDeclarations ==
    {StructField(<<SQTypeSpecifier(TS(k))>>, ds) :
         k \in {"Int", "Float"},
         ds \in {<<>>, <<Field("x")>>, <<Field("y")>>, <<Field("x"), Field("y")>>,
                 <<Field("y"), Field("x")>>, <<Field("x"), Field("x")>>}}

(* The struct specifiers whose fields all convert: a body of up to         *)
(* MaxFields field declarations, or no body.                               *)
StructBodies ==
    {StructType("Struct", Some("S"), Some(b)) :
         b \in SeqsUpTo(FieldDeclarations, MaxFields)}
    \cup {StructType("Struct", Some("S"), None)}

(* The struct specifiers with a part that fails or aborts: a negative      *)
(* array bound, two scalars, a bound that is no integer, a function field  *)
(* whose parameters fail, an inner struct with a repeated name, a static   *)
(* assertion, a declarator that is missing, a union.                       *)
OddStructs ==
    {StructType("Struct", None, Some(b)) : b \in
        {<<IntField(<<ArrayDim(-1)>>),
           StructField(<<SQTypeSpecifier(TS("Int")), SQTypeSpecifier(TS("Int"))>>,
                       <<Field("y")>>)>>,
         <<StructField(<<SQTypeSpecifier(TS("Int")), SQTypeSpecifier(TS("Int"))>>,
                       <<Field("y")>>),
           IntField(<<ArrayDim(-1)>>)>>,
         <<IntField(<<>>), IntField(<<ArrayDim(-1)>>)>>,
         <<IntField(<<DDArray(<<>>, VariableExpression(ExprFloat))>>),
           IntField(<<ArrayDim(-1)>>)>>,
         <<IntField(<<DDFunction(<<Param(<<DSTypeSpecifier(TS("Int")),
                                           DSTypeSpecifier(TS("Int"))>>, None),
                                   Param(<<DSTypeSpecifier(TS("Int"))>>,
                                         Some(Declarator(KindIdentifier("p"),
                                                         <<ArrayDim(-1)>>)))>>)>>)>>,
         <<StructField(<<SQTypeSpecifier(TSStruct(
                             StructType("Struct", None,
                                        Some(<<IntField(<<>>), IntField(<<>>)>>))))>>,
                       <<Field("s")>>)>>,
         <<IntField(<<>>), StaticAssert>>,
         <<StructField(<<SQTypeSpecifier(TS("Int"))>>, <<StructDeclarator(None)>>)>>}}
    \cup {StructType("Union", Some("S"), Some(<<IntField(<<>>)>>))}

(* unsigned long int const, in every order.                                *)
UnsignedLongIntConst ==
    {[i \in 1..4 |-> <<DSTypeSpecifier(TS("Unsigned")), DSTypeSpecifier(TS("Long")),
                        DSTypeSpecifier(TS("Int")), DSTypeQualifier(Const)>>[p[i]]] :
         p \in Permutations(1..4)}

SpecifierSeqs ==
    SeqsUpTo(SpecifierTokens, MaxSpecifiers)
    \cup UnsignedLongIntConst
    \cup UNION {{<<DSTypeSpecifier(TSStruct(st))>>,
                 <<DSTypeQualifier(Const), DSTypeSpecifier(TSStruct(st))>>} :
                   st \in StructBodies \cup OddStructs}

InitSpecifier ==
    /\ pc = "init"
    /\ op = "none"
    /\ self = BaseDtypeDefault
    /\ typedefs = NoTypedefs
    /\ specifiers \in SpecifierSeqs
    /\ declarator = None
    /\ result = NoResult

(* BaseDtype::apply_declaration_specifiers on the empty accumulator.  The  *)
(* accumulator is what the caller goes on with; a failure ends the         *)
(* conversion.                                                             *)
ApplyDeclarationSpecifiers ==
    /\ pc = "init"
    /\ op' = "apply_declaration_specifiers"
    /\ result' = apply_declaration_specifiers(self, specifiers)
    /\ pc' = IF IsOk(result') THEN "applied" ELSE "done"
    /\ self' = AfterApplyDeclarationSpecifiers(self, specifiers)
    /\ UNCHANGED <<typedefs, specifiers, declarator>>

(* BaseDtype::apply_specifier_qualifiers on the same list, which then has  *)
(* no storage class.                                                       *)
ApplySpecifierQualifiers ==
    /\ pc = "init"
    /\ \A i \in 1..Len(specifiers) : specifiers[i].ds # "StorageClass"
    /\ op' = "apply_specifier_qualifiers"
    /\ result' = apply_specifier_qualifiers(
                     self,
                     [i \in 1..Len(specifiers) |->
                         IF specifiers[i].ds = "TypeSpecifier"
                         THEN SQTypeSpecifier(specifiers[i].node)
                         ELSE SQTypeQualifier(specifiers[i].node)])
    /\ pc' = IF IsOk(result') THEN "applied" ELSE "done"
    /\ self' = AfterApplySpecifierQualifiers(
                   self,
                   [i \in 1..Len(specifiers) |->
                       IF specifiers[i].ds = "TypeSpecifier"
                       THEN SQTypeSpecifier(specifiers[i].node)
                       ELSE SQTypeQualifier(specifiers[i].node)])
    /\ UNCHANGED <<typedefs, specifiers, declarator>>

(* Dtype::try_from(spec) on the accumulator.                               *)
TryFromSpec ==
    /\ pc = "applied"
    /\ pc' = "done"
    /\ op' = "TryFromBaseDtype"
    /\ result' = TryFromBaseDtype(self)
    /\ UNCHANGED <<self, typedefs, specifiers, declarator>>

(* BaseDtype::apply_declaration_specifier: one more specifier on the       *)
(* accumulator; the specifier joins the list of those applied.             *)
ApplyDeclarationSpecifier ==
    /\ pc = "applied"
    /\ op = "apply_declaration_specifiers"
    /\ pc' = "one"
    /\ op' = "apply_declaration_specifier"
    /\ \E declaration_specifier \in SpecifierTokens :
          /\ specifiers' = Append(specifiers, declaration_specifier)
          /\ result' = apply_declaration_specifier(self, declaration_specifier)
    /\ self' = AfterApply(self, result')
    /\ UNCHANGED <<typedefs, declarator>>

NextSpecifier ==
    \/ ApplyDeclarationSpecifiers
    \/ ApplySpecifierQualifiers
    \/ TryFromSpec
    \/ ApplyDeclarationSpecifier

SpecSpecifier == InitSpecifier /\ [][NextSpecifier]_vars

---------------------------------------------------------------------------
(* Properties of the accumulator and of its conversion.                    *)

Converted == pc = "done" /\ op = "TryFromBaseDtype"

(* C11: an accumulator with no scalar, no size modifier, no signedness, no *)
(* typedef name, no struct specifier and no const flag, with or without    *)
(* the typedef storage-class flag, is never converted to Ok: the           *)
(* conversion aborts on its opening assertion.                             *)
C11_EmptyAccumulatorIsRejected ==
    (/\ Converted
     /\ self.scalar = None
     /\ self.size_modifiers = <<>>
     /\ self.signed_option = None
     /\ self.typedef_name = None
     /\ self.struct_type = None
     /\ ~self.is_const)
    => result = Panic("BaseDtype is empty")

(* The specifier list that holds typedef alone.                            *)
C11_Witness ==
    /\ Converted
    /\ specifiers = <<DSStorageClass(SC("Typedef"))>>
    /\ self.is_typedef
    /\ result = Panic("BaseDtype is empty")

Applied ==
    /\ pc \in {"applied", "done"}
    /\ op \in {"apply_declaration_specifiers", "apply_specifier_qualifiers"}

(* The slot that a specifier sets.                                         *)
SlotOf(specifier) ==
    IF specifier.ds # "TypeSpecifier" THEN "none"
    ELSE IF specifier.node.ts \in {"Signed", "Unsigned"} THEN "signed_option"
    ELSE IF specifier.node.ts \in {"Void", "Bool", "Char", "Int", "Float", "Double"}
    THEN "scalar"
    ELSE IF specifier.node.ts = "TypedefName" THEN "typedef_name"
    ELSE IF specifier.node.ts = "Struct" THEN "struct_type"
    ELSE IF specifier.node.ts \in {"Short", "Long"} THEN "size_modifiers"
    ELSE "none"

(* The specifiers that the code does not support and aborts on.            *)
Aborts(specifier) ==
    specifier \notin {DSTypeQualifier(Const), DSStorageClass(SC("Typedef"))}
    /\ SlotOf(specifier) = "none"

(* The j-th specifier sets a slot that an earlier one has set.             *)
SetsAgain(j) ==
    /\ SlotOf(specifiers[j]) \in {"signed_option", "scalar", "typedef_name",
                                  "struct_type"}
    /\ \E i \in 1..(j - 1) : SlotOf(specifiers[i]) = SlotOf(specifiers[j])

DuplicateError(slot) ==
    CASE slot = "signed_option" -> Err("duplicate signed option")
      [] slot = "scalar" -> Err("two or more scalar types in declaration specifiers")
      [] slot = "typedef_name" ->
           Err("two or more typedef names in declaration specifiers")
      [] slot = "struct_type" ->
           Err("two or more struct type in declaration specifiers")

(* C12: applying a type specifier that would set a slot already set (a     *)
(* second signedness keyword, a second scalar keyword, a second typedef    *)
(* name, a second struct specifier) returns the error of that slot; short  *)
(* and long alone may repeat, so a list without such a repeat (and without *)
(* an unsupported specifier) is applied without an error.                  *)
C12_SecondSlotIsError ==
    Applied =>
        /\ \A j \in 1..Len(specifiers) :
              (/\ SetsAgain(j)
               /\ \A i \in 1..(j - 1) : ~SetsAgain(i) /\ ~Aborts(specifiers[i]))
              => result = DuplicateError(SlotOf(specifiers[j]))
        /\ (\A j \in 1..Len(specifiers) : ~SetsAgain(j) /\ ~Aborts(specifiers[j]))
              => IsOk(result)

(* signed after unsigned.                                                  *)
C12_Witness ==
    /\ Applied
    /\ specifiers = <<DSTypeSpecifier(TS("Unsigned")), DSTypeSpecifier(TS("Signed"))>>
    /\ result = Err("duplicate signed option")

(* The conversion took the scalar branch: no typedef name, no struct.      *)
ScalarConverted ==
    /\ Converted
    /\ ~IsEmpty(self)
    /\ self.typedef_name = None
    /\ self.struct_type = None

(* The dtype of the base keyword, int when there is none.                  *)
KeywordDtype(scalar) ==
    IF scalar = None THEN DtypeInt(32, TRUE, FALSE)
    ELSE CASE scalar[1].ts = "Void" -> DtypeUnit(FALSE)
           [] scalar[1].ts = "Bool" -> DtypeInt(1, FALSE, FALSE)
           [] scalar[1].ts = "Char" -> DtypeInt(8, TRUE, FALSE)
           [] scalar[1].ts = "Int" -> DtypeInt(32, TRUE, FALSE)
           [] scalar[1].ts = "Float" -> DtypeFloat(32, FALSE)
           [] scalar[1].ts = "Double" -> DtypeFloat(64, FALSE)

ModifiersAreValid(size_modifiers) ==
    \/ Len(size_modifiers) <= 1
    \/ Len(size_modifiers) = 2 /\ \A i \in 1..2 : size_modifiers[i].ts = "Long"

(* What the size modifiers make of the dtype of the base keyword.          *)
Sized(dtype, size_modifiers) ==
    IF size_modifiers = <<>> THEN dtype
    ELSE IF size_modifiers = <<TS("Short")>> THEN DtypeInt(16, TRUE, FALSE)
    ELSE DtypeInt(64, TRUE, FALSE)

(* C13: in the scalar branch no size modifier leaves the scalar as it is,  *)
(* one short gives Int{16}, one long gives Int{64}, two give Int{64} when  *)
(* both are long and an error otherwise, three or more give an error.      *)
C13_SizeModifiersDecide ==
    ScalarConverted =>
        IF ~ModifiersAreValid(self.size_modifiers)
        THEN result = Err("two or more size modifiers in declaration specifiers")
        ELSE self.signed_option = None =>
                 result = Ok([Sized(KeywordDtype(self.scalar), self.size_modifiers)
                                 EXCEPT !.is_const = self.is_const])

(* short long is an error.                                                 *)
C13_Witness ==
    /\ ScalarConverted
    /\ self.size_modifiers = <<TS("Short"), TS("Long")>>
    /\ result = Err("two or more size modifiers in declaration specifiers")

(* A signedness keyword was accumulated with void, float or double.        *)
SignedNonInteger ==
    /\ Converted
    /\ IsSome(self.signed_option)
    /\ IsSome(self.scalar)
    /\ self.scalar[1].ts \in {"Void", "Float", "Double"}

(* C14 as stated: a signedness keyword accumulated with a non-integer base *)
(* keyword (void, float, double) makes the conversion return an error,     *)
(* whatever size modifiers and const are present.                          *)
C14_SignedNonIntegerIsError ==
    SignedNonInteger => result.kind = "Err"

(* C14, amended: a signedness keyword accumulated with a non-integer base  *)
(* keyword and no size modifier makes the conversion return an error, with *)
(* or without const.  With size modifiers these decide first: one short,   *)
(* one long or long long replace the keyword's dtype by Int{16} or         *)
(* Int{64}, on which the signedness is set without an error; any other     *)
(* list of modifiers is an error.                                          *)
C14_SignedUnsizedNonIntegerIsError ==
    SignedNonInteger =>
        IF IsSome(self.typedef_name)
        THEN result = Err("typedef can only be used with const")
        ELSE IF IsSome(self.struct_type)
        THEN result = Err("struct can only be used with const")
        ELSE IF self.size_modifiers = <<>>
        THEN result = Err("signed and unsigned only be applied to Dtype::Int")
        ELSE IF ~ModifiersAreValid(self.size_modifiers)
        THEN result = Err("two or more size modifiers in declaration specifiers")
        ELSE result = Ok(DtypeInt(IF self.size_modifiers = <<TS("Short")>>
                                  THEN 16 ELSE 64,
                                  self.signed_option[1].ts = "Signed",
                                  self.is_const))

(* const unsigned float is an error.                                       *)
C14_Witness ==
    /\ SignedNonInteger
    /\ self.scalar = Some(TS("Float"))
    /\ self.signed_option = Some(TS("Unsigned"))
    /\ self.size_modifiers = <<>>
    /\ self.is_const
    /\ result = Err("signed and unsigned only be applied to Dtype::Int")

(* The conversion took the struct branch, with nothing but const beside    *)
(* the struct, on a struct whose fields all convert.                       *)
StructConverted ==
    /\ Converted
    /\ IsSome(self.struct_type)
    /\ self.struct_type[1] \in StructBodies
    /\ self.scalar = None
    /\ self.size_modifiers = <<>>
    /\ self.signed_option = None
    /\ self.typedef_name = None

(* The fields as declared: one per declarator, in order, and an anonymous  *)
(* one for a declaration without declarators.                              *)
FieldsOf(declaration) ==
    IF declaration.declarators = <<>>
    THEN <<Named(None, KeywordDtype(Some(declaration.specifiers[1].node)))>>
    ELSE [i \in 1..Len(declaration.declarators) |->
             Named(Some(declaration.declarators[i].declarator[1].kind.name),
                   KeywordDtype(Some(declaration.specifiers[1].node)))]

RECURSIVE DeclaredFields(_)
DeclaredFields(declarations) ==
    IF declarations = <<>> THEN <<>>
    ELSE FieldsOf(Head(declarations)) \o DeclaredFields(Tail(declarations))

BodyOf(struct_type) ==
    IF IsSome(struct_type.declarations)
    THEN DeclaredFields(struct_type.declarations[1])
    ELSE <<>>

(* The q-th field is named as an earlier field is.                         *)
RepeatsName(fields, q) ==
    /\ IsSome(fields[q].name)
    /\ \E p \in 1..(q - 1) : fields[p].name = fields[q].name

FieldsAsDeclared(struct_type, fields) ==
    IF \E q \in 1..Len(fields) : RepeatsName(fields, q)
    THEN /\ result.kind = "Err"
         /\ result.msg = "is arleady used in struct"
         /\ \E q \in 1..Len(fields) :
               /\ RepeatsName(fields, q)
               /\ \A p \in 1..(q - 1) : ~RepeatsName(fields, p)
               /\ result.name = fields[q].name[1]
    ELSE result = Ok(DtypeStruct(struct_type.identifier, fields, self.is_const))

(* C15: converting a struct specifier is an error as soon as two named     *)
(* fields of its body, over all field declarations and declarators, have   *)
(* the same name; with distinct names the fields of the result are the     *)
(* declared fields in declaration order.  Anonymous fields are never       *)
(* repeats of one another.                                                 *)
C15_FieldNamesAreUnique ==
    StructConverted =>
        FieldsAsDeclared(self.struct_type[1], BodyOf(self.struct_type[1]))

(* struct S { int x; float x; } is an error.                               *)
C15_Witness ==
    /\ StructConverted
    /\ self.struct_type[1].declarations =
           Some(<<StructField(<<SQTypeSpecifier(TS("Int"))>>, <<Field("x")>>),
                  StructField(<<SQTypeSpecifier(TS("Float"))>>, <<Field("x")>>)>>)
    /\ result.kind = "Err"
    /\ result.name = "x"

(* How many of scalar keyword, typedef name and struct specifier are set.  *)
BasesSet(spec) ==
    (IF IsSome(spec.scalar) THEN 1 ELSE 0)
    + (IF IsSome(spec.typedef_name) THEN 1 ELSE 0)
    + (IF IsSome(spec.struct_type) THEN 1 ELSE 0)

(* C16: the conversion is an error when more than one of scalar keyword,   *)
(* typedef name and struct specifier is set, and when a typedef name or a  *)
(* struct specifier comes with a size modifier or a signedness keyword; a  *)
(* typedef name with nothing but an optional const is Typedef{name,        *)
(* const}.                                                                 *)
C16_OneBaseOnly ==
    Converted =>
        /\ BasesSet(self) > 1 => result.kind = "Err"
        /\ (/\ IsSome(self.typedef_name) \/ IsSome(self.struct_type)
            /\ self.size_modifiers # <<>> \/ IsSome(self.signed_option))
           => result.kind = "Err"
        /\ (/\ IsSome(self.typedef_name)
            /\ BasesSet(self) = 1
            /\ self.size_modifiers = <<>>
            /\ self.signed_option = None)
           => result = Ok(DtypeTypedef(self.typedef_name[1], self.is_const))

(* const A is Typedef{A, const}.                                           *)
C16_Witness ==
    /\ Converted
    /\ specifiers = <<DSTypeQualifier(Const), DSTypeSpecifier(TSTypedefName("A"))>>
    /\ result = Ok(DtypeTypedef("A", TRUE))

---------------------------------------------------------------------------
(* Properties of with_ast_array_size.                                      *)

(* The declarator ends in an array declarator whose bound is an integer    *)
(* constant.                                                               *)
EndsInIntegerBound ==
    /\ Declared
    /\ declarator[1].kind.k # "Declarator"
    /\ declarator[1].derived # <<>>
    /\ LastLayer.dd = "Array"
    /\ LastLayer.qualifiers = <<>>
    /\ LastLayer.size.form = "VariableExpression"
    /\ LastLayer.size.expr.constant = "Int"

ArrayOf(built) ==
    IF IsOk(built)
    THEN result = Ok(Named(NameOf(declarator[1].kind), built.val))
    ELSE result = built

BoundApplied(current, bound) ==
    IsOk(current) =>
        IF bound.is_signed /\ bound.value < 0
        THEN result = Err("declared as an array with a negative size")
        ELSE ArrayOf(array(current.val, bound.value))

(* C17: with_ast_array_size returns an error and builds no array when the  *)
(* bound is a signed integer constant below zero; for every other integer  *)
(* constant, zero and unsigned values included, it returns what            *)
(* Dtype::array builds with that value as the element count.               *)
C17_NegativeBoundIsError ==
    EndsInIntegerBound =>
        BoundApplied(FoldDerived(self, SubSeq(declarator[1].derived, 1,
                                              Len(declarator[1].derived) - 1)),
                     LastLayer.size.expr)

(* int a[2][-1] is an error.                                               *)
C17_Witness ==
    /\ EndsInIntegerBound
    /\ self = INT
    /\ declarator[1].derived = <<ArrayDim(2), ArrayDim(-1)>>
    /\ result = Err("declared as an array with a negative size")

---------------------------------------------------------------------------
(* Properties of the propagation of errors.                                *)

(* The j-th specifier is the first whose application fails.                *)
FirstToFail(j) ==
    /\ SetsAgain(j) \/ Aborts(specifiers[j])
    /\ \A i \in 1..(j - 1) : ~SetsAgain(i) /\ ~Aborts(specifiers[i])

(* The struct body of the accumulator, converted with nothing but const    *)
(* beside it.                                                              *)
BodyConverted ==
    /\ Converted
    /\ IsSome(self.struct_type)
    /\ BasesSet(self) = 1
    /\ self.size_modifiers = <<>>
    /\ self.signed_option = None
    /\ self.struct_type[1].kind = "Struct"
    /\ IsSome(self.struct_type[1].declarations)

(* The first field declaration that fails decides the result.              *)
FirstFieldFailureWins(declarations) ==
    \A i \in 1..Len(declarations) :
        (/\ ~IsOk(try_from_ast_struct_declaration(declarations[i]))
         /\ \A j \in 1..(i - 1) :
               IsOk(try_from_ast_struct_declaration(declarations[j])))
        => result = try_from_ast_struct_declaration(declarations[i])

(* The parts of a field declaration int x D: an array bound that fails, or *)
(* the first parameter of a function declarator that fails, is the result  *)
(* of the field declaration.                                               *)
PartFailureWins(declaration) ==
    (/\ declaration.sd = "Field"
     /\ declaration.specifiers = <<SQTypeSpecifier(TS("Int"))>>
     /\ Len(declaration.declarators) = 1
     /\ IsSome(declaration.declarators[1].declarator)
     /\ Len(declaration.declarators[1].declarator[1].derived) = 1)
    => /\ declaration.declarators[1].declarator[1].derived[1].dd = "Array"
          => (~IsOk(with_ast_array_size(
                        INT, declaration.declarators[1].declarator[1].derived[1].size))
              => try_from_ast_struct_declaration(declaration)
                   = with_ast_array_size(
                         INT, declaration.declarators[1].declarator[1].derived[1].size))
       /\ declaration.declarators[1].declarator[1].derived[1].dd = "Function"
          => \A k \in 1..Len(declaration.declarators[1].declarator[1]
                                 .derived[1].parameters) :
                (/\ ~IsOk(TryFromParameterDeclaration(
                              declaration.declarators[1].declarator[1]
                                  .derived[1].parameters[k]))
                 /\ \A j \in 1..(k - 1) :
                       IsOk(TryFromParameterDeclaration(
                                declaration.declarators[1].declarator[1]
                                    .derived[1].parameters[j])))
                => try_from_ast_struct_declaration(declaration)
                     = TryFromParameterDeclaration(
                           declaration.declarators[1].declarator[1]
                               .derived[1].parameters[k])

(* C18: the first failure wins.  A batch of specifiers returns the failure *)
(* of the first specifier whose application fails, whatever follows it,    *)
(* and Ok when none fails; a failure while a nested part is derived (a     *)
(* struct field, and in it an array bound or a function parameter) is the  *)
(* result of the whole enclosing conversion, which returns no dtype.       *)
C18_FirstErrorWins ==
    /\ Applied =>
          /\ \A j \in 1..Len(specifiers) :
                FirstToFail(j) =>
                    IF SetsAgain(j)
                    THEN result = DuplicateError(SlotOf(specifiers[j]))
                    ELSE result.kind = "Panic"
          /\ (\A j \in 1..Len(specifiers) : ~FirstToFail(j)) => IsOk(result)
    /\ BodyConverted =>
          /\ FirstFieldFailureWins(self.struct_type[1].declarations[1])
          /\ \A i \in 1..Len(self.struct_type[1].declarations[1]) :
                PartFailureWins(self.struct_type[1].declarations[1][i])

(* struct { int x[-1]; int int y; } is the error of the array bound.       *)
C18_WitnessNested ==
    /\ BodyConverted
    /\ self.struct_type[1].declarations[1][1] = IntField(<<ArrayDim(-1)>>)
    /\ Len(self.struct_type[1].declarations[1]) = 2
    /\ ~IsOk(try_from_ast_struct_declaration(self.struct_type[1].declarations[1][2]))
    /\ result = Err("declared as an array with a negative size")

(* int float volatile is the error of float, the second scalar.            *)
C18_Witness ==
    /\ Applied
    /\ specifiers = <<DSTypeSpecifier(TS("Int")), DSTypeSpecifier(TS("Float")),
                      DSTypeQualifier(TQ("Volatile"))>>
    /\ result = Err("two or more scalar types in declaration specifiers")

(* C19: with exactly one size modifier the base keyword does not matter:   *)
(* short gives a 16-bit and long a 64-bit integer, signed unless unsigned  *)
(* was given, with the const flag of the accumulator, and no error, also   *)
(* for void, _Bool, char, float and double.                                *)
C19_OneSizeModifierDecides ==
    (ScalarConverted /\ Len(self.size_modifiers) = 1)
    => result = Ok(DtypeInt(IF self.size_modifiers[1].ts = "Short" THEN 16 ELSE 64,
                            self.signed_option # Some(TS("Unsigned")),
                            self.is_const))

(* long float is a signed 64-bit integer.                                  *)
C19_Witness ==
    /\ ScalarConverted
    /\ self.scalar = Some(TS("Float"))
    /\ self.size_modifiers = <<TS("Long")>>
    /\ result = Ok(DtypeInt(64, TRUE, FALSE))

(* The entries of the environment refer to each other in a cycle.          *)
Cyclic(tds) ==
    /\ DOMAIN tds = {"A", "B"}
    /\ HasTypedef(tds["A"])
    /\ HasTypedef(tds["B"])

(* C20: resolve_typedefs returns, with Ok or with Err, for every tree and  *)
(* every environment, also when the entries of the environment refer to    *)
(* each other in a cycle.                                                  *)
C20_ResolveReturnsOkOrErr ==
    Resolved => result.kind \in {"Ok", "Err"}

(* What holds of the code: the call ends for every tree and environment,   *)
(* cyclic ones too, since an entry is cloned and never resolved; it ends   *)
(* with Ok, with Err, or with the abort of is_const on an entry that is,   *)
(* or holds in a struct field, an unresolved Typedef.                      *)
ResolveEnds ==
    Resolved =>
        /\ result.kind \in {"Ok", "Err", "Panic"}
        /\ result.kind = "Panic"
           => \E n \in DOMAIN typedefs : HasTypedef(typedefs[n])

(* Typedef A under A -> Typedef B, B -> Typedef A ends with the abort.     *)
CyclicAborts ==
    /\ Resolved
    /\ Cyclic(typedefs)
    /\ self = DtypeTypedef("A", FALSE)
    /\ result.kind = "Panic"

(* Typedef A under A -> Pointer{Typedef B}, B -> Typedef A ends with Ok.   *)
CyclicReturns ==
    /\ Resolved
    /\ Cyclic(typedefs)
    /\ self = DtypeTypedef("A", FALSE)
    /\ result = Ok(DtypePointer(DtypeTypedef("B", FALSE), FALSE))

---------------------------------------------------------------------------
(* Properties of parenthesized declarators and of pointer layers.          *)

(* The identifier of the innermost core, None when it is abstract.         *)
RECURSIVE InnermostName(_)
InnermostName(decl) ==
    IF decl.kind.k = "Declarator"
    THEN InnermostName(decl.kind.declarator)
    ELSE NameOf(decl.kind)

(* The layers of a declarator in the order they are applied: its own       *)
(* derived list, then the layers of its parenthesized core.                *)
RECURSIVE LayersOf(_)
LayersOf(decl) ==
    IF decl.kind.k = "Declarator"
    THEN decl.derived \o LayersOf(decl.kind.declarator)
    ELSE decl.derived

NamedAs(name, folded) ==
    IF IsOk(folded) THEN result = Ok(Named(name, folded.val)) ELSE result = folded

(* The core applied to what the outer layers gave.                         *)
CoreAppliedTo(outer, core) ==
    IF IsOk(outer)
    THEN NamedAs(InnermostName(core), FoldDerived(outer.val, LayersOf(core)))
    ELSE result = outer

(* C21: a declarator whose core is a parenthesized declarator folds its    *)
(* own derived list over the base type first and resolves the core on what *)
(* that gave; the name is the identifier of the innermost core, None when  *)
(* that core is abstract.                                                  *)
C21_OuterLayersThenCore ==
    (Declared /\ declarator[1].kind.k = "Declarator") =>
        CoreAppliedTo(FoldDerived(self, declarator[1].derived),
                      declarator[1].kind.declarator)

(* int (pointer a[2])[3] is Array{2, Pointer{Array{3, Int32}}} named a.    *)
C21_Witness ==
    /\ Declared
    /\ self = INT
    /\ declarator[1] = Declarator(KindDeclarator(Declarator(KindIdentifier("a"),
                                                            <<PointerTo, ArrayDim(2)>>)),
                                  <<ArrayDim(3)>>)
    /\ result = Ok(Named(Some("a"),
                         DtypeArray(DtypePointer(DtypeArray(INT, 3), FALSE), 2)))

(* int (pointer a)[3] is Pointer{Array{3, Int32}} named a.                 *)
C21_WitnessPointer ==
    /\ Declared
    /\ self = INT
    /\ declarator[1] = Declarator(KindDeclarator(Declarator(KindIdentifier("a"),
                                                            <<PointerTo>>)),
                                  <<ArrayDim(3)>>)
    /\ result = Ok(Named(Some("a"), DtypePointer(DtypeArray(INT, 3), FALSE)))

HasConst(pointer_qualifiers) ==
    \E i \in 1..Len(pointer_qualifiers) :
        pointer_qualifiers[i] = PQTypeQualifier(Const)

OnlyConst(pointer_qualifiers) ==
    \A i \in 1..Len(pointer_qualifiers) :
        pointer_qualifiers[i] = PQTypeQualifier(Const)

(* The pointer layer made of what came before it a pointer with the flag.  *)
LayerWraps(before, after, flag) ==
    IF IsOk(before)
    THEN after = Ok(DtypePointer(before.val, flag))
    ELSE after = before

PointerResult(before, name, flag) ==
    IF IsOk(before)
    THEN result = Ok(Named(name, DtypePointer(before.val, flag)))
    ELSE result = before

(* C22: a pointer layer makes the current type, unchanged, the pointee of  *)
(* a new pointer whose const flag is set exactly when the qualifiers of    *)
(* that layer hold const, whatever the constness of the pointee and the    *)
(* qualifiers of the other pointer layers of the chain.                    *)
C22_PointerConstIsItsOwn ==
    (Declared /\ declarator[1].kind.k # "Declarator") =>
        /\ \A k \in 1..Len(declarator[1].derived) :
              (/\ declarator[1].derived[k].dd = "Pointer"
               /\ OnlyConst(declarator[1].derived[k].qualifiers))
              => LayerWraps(FoldDerived(self, SubSeq(declarator[1].derived, 1, k - 1)),
                            FoldDerived(self, SubSeq(declarator[1].derived, 1, k)),
                            HasConst(declarator[1].derived[k].qualifiers))
        /\ (/\ declarator[1].derived # <<>>
            /\ LastLayer.dd = "Pointer"
            /\ OnlyConst(LastLayer.qualifiers))
           => PointerResult(FoldDerived(self, SubSeq(declarator[1].derived, 1,
                                                     Len(declarator[1].derived) - 1)),
                            NameOf(declarator[1].kind),
                            HasConst(LastLayer.qualifiers))

(* const float (pointer const) (pointer) a: the outer pointer is not const *)
(* though its pointee, a const pointer to a const float, is.               *)
C22_Witness ==
    /\ Declared
    /\ self = DtypeFloat(32, TRUE)
    /\ declarator[1] = Declarator(KindIdentifier("a"), <<ConstPointerTo, PointerTo>>)
    /\ result = Ok(Named(Some("a"),
                         DtypePointer(DtypePointer(DtypeFloat(32, TRUE), TRUE), FALSE)))

---------------------------------------------------------------------------
(* Field declarations: a list of specifiers and qualifiers and a list of   *)
(* struct declarators.                                                     *)

(* int; const float; A; and the lists that do not convert: int int, and no *)
(* specifier at all.                                                       *)
FieldSpecifierLists ==
    {<<SQTypeSpecifier(TS("Int"))>>,
     <<SQTypeQualifier(Const), SQTypeSpecifier(TS("Float"))>>,
     <<SQTypeSpecifier(TSTypedefName("A"))>>,
     <<SQTypeSpecifier(TS("Int")), SQTypeSpecifier(TS("Int"))>>,
     <<>>}

(* The struct declarators x and y, plain, as a pointer, as an array of two *)
(* and as an array of a negative size, and one without a declarator.       *)
FieldDeclarators ==
    {StructDeclarator(Some(Declarator(KindIdentifier(n), d))) :
         n \in {"x", "y"},
         d \in {<<>>, <<PointerTo>>, <<ArrayDim(2)>>, <<ArrayDim(-1)>>}}
    \cup {StructDeclarator(None)}

InitField ==
    /\ pc = "init"
    /\ op = "none"
    /\ self = NoDtype
    /\ typedefs = NoTypedefs
    /\ specifiers \in FieldSpecifierLists
    /\ declarator \in SeqsUpTo(FieldDeclarators, MaxFields)
    /\ result = NoResult

(* Dtype::try_from_ast_struct_declaration on the field declaration.        *)
TryFromAstStructDeclaration ==
    /\ pc = "init"
    /\ pc' = "done"
    /\ op' = "try_from_ast_struct_declaration"
    /\ result' = try_from_ast_struct_declaration(StructField(specifiers, declarator))
    /\ UNCHANGED <<self, typedefs, specifiers, declarator>>

NextField == TryFromAstStructDeclaration

SpecField == InitField /\ [][NextField]_vars

---------------------------------------------------------------------------
(* Properties of field declarations.                                       *)

FieldConverted == pc = "done" /\ op = "try_from_ast_struct_declaration"

(* The base type of the specifiers of the field declaration.               *)
FieldBase(specs) ==
    IF specs = <<SQTypeSpecifier(TS("Int"))>> THEN Some(INT)
    ELSE IF specs = <<SQTypeQualifier(Const), SQTypeSpecifier(TS("Float"))>>
    THEN Some(DtypeFloat(32, TRUE))
    ELSE IF specs = <<SQTypeSpecifier(TSTypedefName("A"))>>
    THEN Some(DtypeTypedef("A", FALSE))
    ELSE None

(* Every struct declarator has a declarator, and none has a negative size. *)
DeclaratorsResolve(declarators) ==
    \A i \in 1..Len(declarators) :
        /\ IsSome(declarators[i].declarator)
        /\ declarators[i].declarator[1].derived # <<ArrayDim(-1)>>

(* The field of one declarator: its own layer on the base type.            *)
FieldOf(base, decl) ==
    Named(Some(decl.kind.name),
          IF decl.derived = <<PointerTo>> THEN DtypePointer(base, FALSE)
          ELSE IF decl.derived = <<ArrayDim(2)>> THEN DtypeArray(base, 2)
          ELSE base)

FieldsFrom(base, declarators) ==
    IF declarators = <<>>
    THEN result = Ok(<<Named(None, base)>>)
    ELSE IF DeclaratorsResolve(declarators)
    THEN result = Ok([i \in 1..Len(declarators) |->
                         FieldOf(base, declarators[i].declarator[1])])
    ELSE ~IsOk(result)

(* C23: a field declaration with k >= 1 declarators gives k fields in the  *)
(* order of the declarators, each its own declarator applied to the one    *)
(* base type of the specifiers, so that no layer of a declarator shows in  *)
(* the field of another; without declarators it gives one field with no    *)
(* name and the base type.                                                 *)
C23_OneFieldPerDeclarator ==
    (FieldConverted /\ IsSome(FieldBase(specifiers)))
        => FieldsFrom(FieldBase(specifiers)[1], declarator)

(* int (pointer x), y: x is a pointer to int and y is an int.              *)
C23_Witness ==
    /\ FieldConverted
    /\ specifiers = <<SQTypeSpecifier(TS("Int"))>>
    /\ declarator = <<StructDeclarator(Some(Declarator(KindIdentifier("x"),
                                                       <<PointerTo>>))),
                      StructDeclarator(Some(Declarator(KindIdentifier("y"), <<>>)))>>
    /\ result = Ok(<<Named(Some("x"), DtypePointer(INT, FALSE)),
                     Named(Some("y"), INT)>>)

(* const float without declarators is one anonymous const float.           *)
C23_WitnessAnonymous ==
    /\ FieldConverted
    /\ declarator = <<>>
    /\ result = Ok(<<Named(None, DtypeFloat(32, TRUE))>>)

---------------------------------------------------------------------------
(* Properties of what resolve_typedefs leaves alone.                       *)

(* The tree out is the tree in but for what stands where in has a Typedef. *)
RECURSIVE SameAboveTypedefs(_, _)
SameAboveTypedefs(in, out) ==
    CASE in.tag = "Typedef" -> TRUE
      [] in.tag \in {"Unit", "Int", "Float"} -> out = in
      [] in.tag = "Pointer" ->
           /\ out.tag = "Pointer"
           /\ out.is_const = in.is_const
           /\ SameAboveTypedefs(in.inner, out.inner)
      [] in.tag = "Array" ->
           /\ out.tag = "Array"
           /\ out.size = in.size
           /\ SameAboveTypedefs(in.inner, out.inner)
      [] in.tag = "Struct" ->
           /\ out.tag = "Struct"
           /\ out.name = in.name
           /\ out.is_const = in.is_const
           /\ Len(out.fields) = Len(in.fields)
           /\ \A i \in 1..Len(in.fields) :
                 /\ out.fields[i].name = in.fields[i].name
                 /\ SameAboveTypedefs(in.fields[i].inner, out.fields[i].inner)
      [] in.tag = "Function" ->
           /\ out.tag = "Function"
           /\ SameAboveTypedefs(in.ret, out.ret)
           /\ Len(out.params) = Len(in.params)
           /\ \A i \in 1..Len(in.params) :
                 SameAboveTypedefs(in.params[i], out.params[i])

(* C24: a resolve_typedefs that returns Ok changed the Typedef leaves      *)
(* only: every Pointer keeps its const flag, every Array its size, every   *)
(* Struct its name, its fields' number, names and order and its const      *)
(* flag, every Function the number and order of its parameters, and the    *)
(* typedef-free parts are as they were.                                    *)
C24_OnlyTypedefLeavesChange ==
    (Resolved /\ IsOk(result)) => SameAboveTypedefs(self, result.val)

(* A const struct with the field x of type A, under A -> int, is the const *)
(* struct with the field x of type int.                                    *)
C24_Witness ==
    /\ Resolved
    /\ self = DtypeStruct(None, <<Named(Some("x"), DtypeTypedef("A", FALSE))>>, TRUE)
    /\ "A" \in DOMAIN typedefs
    /\ typedefs["A"] = INT
    /\ result = Ok(DtypeStruct(None, <<Named(Some("x"), INT)>>, TRUE))

---------------------------------------------------------------------------
(* Properties of the order of the specifiers.                              *)

(* The specifiers and qualifiers the code supports.                        *)
Supported(specifier) ==
    /\ specifier # DSTypeSpecifier(TS("Complex"))
    /\ specifier # DSTypeQualifier(TQ("Volatile"))
    /\ specifier # DSStorageClass(SC("Extern"))

(* Accumulating and converting a list of specifiers.                       *)
Accumulated(specs) ==
    Try(apply_declaration_specifiers(BaseDtypeDefault, specs),
        LAMBDA spec : TryFromBaseDtype(spec))

(* Both fail, or both give the same dtype.                                 *)
SameOutcome(other) ==
    IF IsOk(result) THEN other = result ELSE ~IsOk(other)

(* C25: the result of accumulating and converting a list of supported      *)
(* specifiers and qualifiers is that of every permutation of the list:     *)
(* both fail or both give equal dtypes.                                    *)
C25_OrderDoesNotMatter ==
    (/\ pc = "done"
     /\ \A i \in 1..Len(specifiers) : Supported(specifiers[i]))
    => \A p \in Permutations(1..Len(specifiers)) :
          SameOutcome(Accumulated([i \in 1..Len(specifiers) |-> specifiers[p[i]]]))

(* const int long unsigned is the const unsigned 64-bit integer that       *)
(* unsigned long int const is.                                             *)
C25_Witness ==
    /\ Converted
    /\ specifiers = <<DSTypeQualifier(Const), DSTypeSpecifier(TS("Int")),
                      DSTypeSpecifier(TS("Long")), DSTypeSpecifier(TS("Unsigned"))>>
    /\ result = Ok(DtypeInt(64, FALSE, TRUE))
    /\ result = Accumulated(<<DSTypeSpecifier(TS("Unsigned")),
                              DSTypeSpecifier(TS("Long")),
                              DSTypeSpecifier(TS("Int")), DSTypeQualifier(Const)>>)

---------------------------------------------------------------------------
(* Properties of the boolean.                                              *)

SignedBool(r) ==
    /\ IsOk(r)
    /\ r.val.tag = "Int"
    /\ r.val.width = 1
    /\ r.val.is_signed

UnsignedBool(r) ==
    /\ IsOk(r)
    /\ r.val.tag = "Int"
    /\ r.val.width = 1
    /\ ~r.val.is_signed

(* C26: signedness is not applied to a boolean.  No conversion of          *)
(* specifiers that hold the keyword bool gives an Int of width 1 that is   *)
(* signed; bool without a size modifier gives an unsigned Int of width 1   *)
(* or fails.                                                               *)
C26_BoolIsNeverSigned ==
    (Converted /\ self.scalar = Some(TS("Bool"))) =>
        /\ ~SignedBool(result)
        /\ self.size_modifiers = <<>> => (UnsignedBool(result) \/ ~IsOk(result))

(* What the code does with signed bool: the signedness is set on Int{1}.   *)
SignedBoolIsConverted ==
    /\ Converted
    /\ specifiers = <<DSTypeSpecifier(TS("Signed")), DSTypeSpecifier(TS("Bool"))>>
    /\ result = Ok(DtypeInt(1, TRUE, FALSE))

---------------------------------------------------------------------------
(* Properties of the constness of array fields.                            *)

(* A struct whose own flag is unset and whose only field is an array, of   *)
(* one or more dimensions, of a scalar that is not const.                  *)
PlainArrayFieldStruct ==
    /\ pc = "done"
    /\ op = "is_const"
    /\ self.tag = "Struct"
    /\ ~self.is_const
    /\ Len(self.fields) = 1
    /\ self.fields[1].inner.tag = "Array"
    /\ ElementOf(self.fields[1].inner).tag \in {"Unit", "Int", "Float"}
    /\ ~ElementOf(self.fields[1].inner).is_const

(* C27: a struct whose own const flag is unset and whose only field is an  *)
(* array of a non-const scalar is not const, whether the array has one     *)
(* dimension or more (int a[2][3]).                                        *)
C27_ArrayFieldOfPlainScalarIsNotConst ==
    PlainArrayFieldStruct => result = Ok(FALSE)

(* What the code does with the field int a[2][3]: the struct is const.     *)
TwoDimensionalFieldIsConst ==
    /\ PlainArrayFieldStruct
    /\ self.fields[1].inner = DtypeArray(DtypeArray(INT, 3), 2)
    /\ result = Ok(TRUE)

---------------------------------------------------------------------------
(* Properties of the entry that a typedef name resolves to.                *)

(* A typedef name without const was resolved, and its entry is             *)
(* typedef-free.                                                           *)
PlainTypedefResolved ==
    /\ Resolved
    /\ self.tag = "Typedef"
    /\ ~self.is_const
    /\ self.name \in DOMAIN typedefs
    /\ ~HasTypedef(typedefs[self.name])

(* C28: resolving Typedef{name, const: false} returns the entry of name as *)
(* it is stored, for every typedef-free entry; a Struct entry keeps its    *)
(* own const flag also when one of its fields is const.                    *)
C28_PlainTypedefIsItsEntry ==
    PlainTypedefResolved => result = Ok(typedefs[self.name])

(* What the code does with an entry that is a struct with a const field:   *)
(* the own flag of the struct is set in the result.                        *)
StructEntryIsMadeConst ==
    /\ PlainTypedefResolved
    /\ typedefs[self.name] = DtypeStruct(None, <<Named(Some("x"), CONST_INT)>>, FALSE)
    /\ result = Ok(DtypeStruct(None, <<Named(Some("x"), CONST_INT)>>, TRUE))

(* What holds of the code: the entry is returned as it is stored unless it *)
(* is a struct, whose own flag is set to its structural constness.         *)
PlainTypedefIsItsEntryButForStructs ==
    PlainTypedefResolved =>
        IF typedefs[self.name].tag = "Struct"
        THEN result = Ok([typedefs[self.name] EXCEPT
                             !.is_const = ConstAsSpecified(typedefs[self.name])])
        ELSE result = Ok(typedefs[self.name])

---------------------------------------------------------------------------
(* Properties of the parameters of a function type.                        *)

(* No Function of the tree has a parameter that is an Array.               *)
RECURSIVE NoArrayParameter(_)
NoArrayParameter(d) ==
    CASE d.tag \in {"Pointer", "Array"} -> NoArrayParameter(d.inner)
      [] d.tag = "Struct" ->
           \A i \in 1..Len(d.fields) : NoArrayParameter(d.fields[i].inner)
      [] d.tag = "Function" ->
           /\ NoArrayParameter(d.ret)
           /\ \A i \in 1..Len(d.params) :
                 /\ d.params[i].tag # "Array"
                 /\ NoArrayParameter(d.params[i])
      [] OTHER -> TRUE

DeclaredAndResolved == pc = "resolved" /\ op = "resolve_typedefs"

(* What holds of the code: no Function that with_ast_declarator builds     *)
(* from parameter declarations has an Array parameter.                     *)
DeclaredFunctionHasNoArrayParameter ==
    (Declared /\ IsOk(result)) => NoArrayParameter(result.val.inner)

(* C29: no parameter of a Function is an Array, neither in the Function    *)
(* that with_ast_declarator builds from parameter declarations nor in what *)
(* resolve_typedefs makes of that Function under an environment whose      *)
(* entries may be arrays.                                                  *)
C29_NoParameterIsAnArray ==
    /\ DeclaredFunctionHasNoArrayParameter
    /\ (DeclaredAndResolved /\ IsOk(result)) => NoArrayParameter(result.val)

(* What the code does with int f(A p) under A -> int[3]: the parameter of  *)
(* the resolved function is the array.                                     *)
TypedefParameterIsAnArray ==
    /\ DeclaredAndResolved
    /\ self = DtypeFunction(INT, <<DtypeTypedef("A", FALSE)>>)
    /\ typedefs["A"] = DtypeArray(INT, 3)
    /\ result = Ok(DtypeFunction(INT, <<DtypeArray(INT, 3)>>))

---------------------------------------------------------------------------
(* Properties of what one apply leaves alone.                              *)

AppliedOne == pc = "one" /\ op = "apply_declaration_specifier"

Slots ==
    {"scalar", "size_modifiers", "signed_option", "typedef_name", "struct_type",
     "is_const", "is_typedef"}

(* The slot of the category of a specifier.                                *)
CategorySlot(specifier) ==
    IF specifier.ds = "TypeQualifier" THEN "is_const"
    ELSE IF specifier.ds = "StorageClass" THEN "is_typedef"
    ELSE SlotOf(specifier)

(* before is the accumulator that the last specifier was applied to.       *)
OnlyItsSlot(before, specifier) ==
    /\ result.kind = "Err" => self = before.val
    /\ IsOk(result) =>
          /\ result.val = self
          /\ \A slot \in Slots \ {CategorySlot(specifier)} :
                self[slot] = before.val[slot]

(* A batch returned an error.                                              *)
BatchFailed ==
    /\ pc = "done"
    /\ op \in {"apply_declaration_specifiers", "apply_specifier_qualifiers"}
    /\ result.kind = "Err"

BatchLeavesPrefix ==
    /\ BatchFailed
    /\ specifiers = <<DSTypeSpecifier(TS("Int")), DSTypeSpecifier(TS("Int"))>>
    /\ self = [BaseDtypeDefault EXCEPT !.scalar = Some(TS("Int"))]

C30_WitnessOk ==
    /\ AppliedOne
    /\ specifiers = <<DSTypeQualifier(Const), DSTypeSpecifier(TS("Int")),
                      DSTypeSpecifier(TS("Long"))>>
    /\ IsOk(result)
    /\ self = [BaseDtypeDefault EXCEPT !.is_const = TRUE,
                                       !.scalar = Some(TS("Int")),
                                       !.size_modifiers = <<TS("Long")>>]

=============================================================================
